---------------------------- MODULE Spec2Model ----------------------------
(***************************************************************************)
(* A model of the JSON repair engine of jsonman (class JSONMan,            *)
(* src/unnamed/part_002): the static method fix, its sixteen text passes,  *)
(* the final heuristic and the strict parse they rest on; then the         *)
(* chainable instance of the class, its static compare, the helpers        *)
(* debounce, throttle, escapeString and unescapeString                     *)
(* (src/unnamed/part_001), the loop of unescapeStringifiedJSON and the     *)
(* passes called one by one, each with a state machine of its own over the *)
(* variables declared here.                                                *)
(*                                                                         *)
(* A text is a sequence of characters; a character is a one-character      *)
(* string, except the few characters TLA+ strings cannot spell, which are  *)
(* named below.                                                            *)
(***************************************************************************)
EXTENDS Integers, Sequences, FiniteSets, TLC

VARIABLES
    input,      \* malformedJson, the argument of the running call of fix
    fixed,      \* the local `fixed` of fix: the text after the passes run so far
    fixes,      \* the local `fixes`: the FixReports pushed so far
    pc,         \* the statement of fix that runs next
    result,     \* the FixResult returned by the call (meaningful when pc = "done")
    run,        \* 1 for a call on a caller's text, 2 for a call on the data of call 1
    thisData,   \* this.data of a JSONMan instance
    thisErrors, \* this.errors of the instance
    called,     \* the method of the instance called last
    argument,   \* the argument of that call
    returned,   \* the value that call returned, when it is not `this`
    now,        \* Date.now(), the clock of the host
    timers,     \* the timeouts set with setTimeout and neither run nor cleared
    nextId,     \* the id the next setTimeout returns
    timeoutId,  \* the `timeoutId` of a debounced or throttled function
    lastExecTime,   \* the `lastExecTime` of a throttled function
    events,     \* the calls of that function and of its fn, in order
    operands,   \* the two values given to compare
    comparison, \* the result of that compare
    loopText,   \* the `result` of unescapeStringifiedJSON while its loop runs
    iterationsLeft, \* its `maxIterations`
    loopChanges,    \* its `hasChanges`
    sweeps,     \* the replace calls its loop has made
    loopPc,     \* "loop" while the loop runs, "returned" after it
    callee,     \* the function called last on a text, "none" before any call
    given,      \* the text it was called on
    yielded,     \* what it returned
    round       \* 1 for a call on a caller's text, 2 for one on a returned text

fixVars == <<input, fixed, fixes, pc, result, run>>
instanceVars == <<thisData, thisErrors, called, argument, returned>>
timerVars == <<now, timers, nextId, timeoutId, lastExecTime, events>>
compareVars == <<operands, comparison>>
loopVars == <<loopText, iterationsLeft, loopChanges, sweeps, loopPc>>
callVars == <<callee, given, yielded, round>>
vars == <<fixVars, instanceVars, timerVars, compareVars, loopVars, callVars>>

-----------------------------------------------------------------------------
(* Characters and the character classes of the regular expressions.        *)

BOM == "U+FEFF"          \* the byte-order mark, charCode 0xFEFF
BSL == "\\"              \* backslash
DQ  == "\""              \* double quote
SQ  == "'"               \* single quote
NL  == "\n"
CR  == "\r"
TAB == "\t"
FF  == "\f"
BSP == "U+0008"          \* backspace

Digit == {"0", "1", "2", "3", "4", "5", "6", "7", "8", "9"}
Lower == {"a", "b", "c", "d", "e", "f", "g", "h", "i", "j", "k", "l", "m",
          "n", "o", "p", "q", "r", "s", "t", "u", "v", "w", "x", "y", "z"}
Upper == {"A", "B", "C", "D", "E", "F", "G", "H", "I", "J", "K", "L", "M",
          "N", "O", "P", "Q", "R", "S", "T", "U", "V", "W", "X", "Y", "Z"}
\* \w
WordCh == Digit \cup Lower \cup Upper \cup {"_"}
\* [0-9A-Fa-f]
HexCh == Digit \cup {"a", "b", "c", "d", "e", "f", "A", "B", "C", "D", "E", "F"}
\* \s of a JavaScript regular expression, and what String.prototype.trim strips
\* (both include U+FEFF)
Space == {" ", TAB, NL, CR, FF, BOM}
\* the line terminators that `.` does not match
LineTerm == {NL, CR}
\* [a-zA-Z_$] and [a-zA-Z0-9_$]
IdStart == Lower \cup Upper \cup {"_", "$"}
IdCh == IdStart \cup Digit

-----------------------------------------------------------------------------
(* String primitives of the language the passes use.                       *)

At(s, i, c) == i >= 1 /\ i <= Len(s) /\ s[i] = c
In(s, i, S) == i >= 1 /\ i <= Len(s) /\ s[i] \in S

\* the text from index i (1-based) to the end
From(s, i) == SubSeq(s, i, Len(s))

\* String.prototype.startsWith at index i
StartsAt(s, i, w) == i + Len(w) - 1 <= Len(s) /\ SubSeq(s, i, i + Len(w) - 1) = w

EndsWith(s, w) == Len(w) <= Len(s) /\ SubSeq(s, Len(s) - Len(w) + 1, Len(s)) = w

\* String.prototype.includes
Includes(s, w) == \E i \in 1..(Len(s) + 1) : StartsAt(s, i, w)

\* the end of the longest run of characters of S that starts at i: the first
\* index >= i whose character is not in S (a greedy S*)
RECURSIVE Skip(_, _, _)
Skip(s, i, S) == IF In(s, i, S) THEN Skip(s, i + 1, S) ELSE i

\* the first index >= i whose character is in S, Len(s) + 1 when there is none
RECURSIVE Find(_, _, _)
Find(s, i, S) == IF i > Len(s) \/ s[i] \in S THEN i ELSE Find(s, i + 1, S)

\* String.prototype.trim
RECURSIVE TrimEnd(_)
TrimEnd(s) == IF Len(s) > 0 /\ s[Len(s)] \in Space
              THEN TrimEnd(SubSeq(s, 1, Len(s) - 1)) ELSE s
Trim(s) == TrimEnd(From(s, Skip(s, 1, Space)))

\* \b at the gap before index i
WordBoundary(s, i) == In(s, i - 1, WordCh) # In(s, i, WordCh)

\* String.prototype.replace with a global regular expression. Match(s, i) is the
\* index after the match that starts at i, 0 when the expression does not match
\* there; Rep(s, i, j) is the replacement of the match s[i..j-1]. The scan
\* resumes after each match (no regular expression here matches the empty text).
ReplaceAll(s, Match(_, _), Rep(_, _, _)) ==
    LET out[i \in 1..(Len(s) + 1)] ==
            IF i > Len(s) THEN <<>>
            ELSE LET j == Match(s, i)
                 IN  IF j = 0 THEN <<s[i]>> \o out[i + 1]
                     ELSE Rep(s, i, j) \o out[j]
    IN  out[1]

\* RegExp.prototype.test, String.prototype.match: some index matches
Matches(s, Match(_, _)) == \E i \in 1..Len(s) : Match(s, i) # 0

\* String.prototype.split on one character
RECURSIVE Split(_, _)
Split(s, c) ==
    LET k == Find(s, 1, {c})
    IN  IF k > Len(s) THEN <<s>>
        ELSE <<SubSeq(s, 1, k - 1)>> \o Split(From(s, k + 1), c)

\* Array.prototype.join
RECURSIVE Join(_, _)
Join(parts, sep) ==
    IF Len(parts) = 0 THEN <<>>
    ELSE IF Len(parts) = 1 THEN parts[1]
    ELSE parts[1] \o sep \o Join(Tail(parts), sep)

-----------------------------------------------------------------------------
(* The words of the literal substitution and of JSON.                      *)

WNone == <<"N", "o", "n", "e">>
WUndefined == <<"u", "n", "d", "e", "f", "i", "n", "e", "d">>
WNULL == <<"N", "U", "L", "L">>
WTrue == <<"T", "r", "u", "e">>
WFalse == <<"F", "a", "l", "s", "e">>
Wnull == <<"n", "u", "l", "l">>
Wtrue == <<"t", "r", "u", "e">>
Wfalse == <<"f", "a", "l", "s", "e">>

-----------------------------------------------------------------------------
(* Numerals: parseInt(hex, 16) and Number.prototype.toString.               *)

HexDigits == <<"0", "1", "2", "3", "4", "5", "6", "7", "8", "9",
               "A", "B", "C", "D", "E", "F">>
HexLower == <<"0", "1", "2", "3", "4", "5", "6", "7", "8", "9",
              "a", "b", "c", "d", "e", "f">>

HexDigitVal(c) ==
    (CHOOSE k \in 1..Len(HexDigits) : HexDigits[k] = c \/ HexLower[k] = c) - 1

\* parseInt(hex, 16), exact below 2^53
RECURSIVE HexVal(_)
HexVal(h) ==
    IF Len(h) = 0 THEN 0
    ELSE HexVal(SubSeq(h, 1, Len(h) - 1)) * 16 + HexDigitVal(h[Len(h)])

\* Number.prototype.toString of a non-negative integer below 10^21
RECURSIVE DecStr(_)
DecStr(n) ==
    IF n < 10 THEN <<HexDigits[n + 1]>>
    ELSE DecStr(n \div 10) \o <<HexDigits[(n % 10) + 1]>>

-----------------------------------------------------------------------------
(* JSONMan.parse: JSON.parse of the text, and whether it threw. JSON.parse  *)
(* is the strict parser of the language (ECMA-404); it is modelled by       *)
(* recursive descent. A parsed value is a pair <<tag, payload>>:            *)
(*   <<"lit", "null" | "true" | "false">>, <<"num", the numeral's text>>,   *)
(*   <<"str", the decoded characters>>, <<"arr", the sequence of values>>,  *)
(*   <<"obj", the set of <<key, value>> pairs, a later key replacing an     *)
(*   earlier equal one>>.                                                   *)
(* Numbers are kept as their numerals, so 1 and 1.0 are different values    *)
(* here; no text of the model spells one number in two ways.                *)

\* the printable characters of codes 32..126, in code order (the grave accent,
\* which a TLA+ string cannot spell, by its code)
Ascii == << " ", "!", "\"", "#", "$", "%", "&", "'", "(", ")", "*", "+", ",",
            "-", ".", "/", "0", "1", "2", "3", "4", "5", "6", "7", "8", "9",
            ":", ";", "<", "=", ">", "?", "@", "A", "B", "C", "D", "E", "F",
            "G", "H", "I", "J", "K", "L", "M", "N", "O", "P", "Q", "R", "S",
            "T", "U", "V", "W", "X", "Y", "Z", "[", "\\", "]", "^", "_", "U+0060",
            "a", "b", "c", "d", "e", "f", "g", "h", "i", "j", "k", "l", "m",
            "n", "o", "p", "q", "r", "s", "t", "u", "v", "w", "x", "y", "z",
            "{", "|", "}", "~" >>

Hex4(code) ==
    HexDigits[((code \div 4096) % 16) + 1] \o HexDigits[((code \div 256) % 16) + 1]
      \o HexDigits[((code \div 16) % 16) + 1] \o HexDigits[(code % 16) + 1]

\* String.fromCharCode: the character of a code unit
CharOf(code) ==
    IF code >= 32 /\ code <= 126 THEN Ascii[code - 31]
    ELSE IF code = 9 THEN TAB
    ELSE IF code = 10 THEN NL
    ELSE IF code = 12 THEN FF
    ELSE IF code = 13 THEN CR
    ELSE "U+" \o Hex4(code)

\* the characters below U+0020, which a JSON string may not hold unescaped
Control == {CharOf(code) : code \in 0..31}

JsonWs == {" ", TAB, NL, CR}

ParseFail == [ok |-> FALSE, val |-> <<>>, next |-> 0]
ParseOk(v, n) == [ok |-> TRUE, val |-> v, next |-> n]

\* the characters of a string literal from index k (after the opening quote),
\* decoded; acc holds those decoded so far
RECURSIVE ParseStringBody(_, _, _)
ParseStringBody(s, k, acc) ==
    IF k > Len(s) THEN ParseFail
    ELSE IF s[k] = DQ THEN ParseOk(acc, k + 1)
    ELSE IF s[k] = BSL
         THEN IF k + 1 > Len(s) THEN ParseFail
              ELSE LET c == s[k + 1]
                   IN  IF c \in {DQ, BSL, "/"}
                       THEN ParseStringBody(s, k + 2, Append(acc, c))
                       ELSE IF c = "b" THEN ParseStringBody(s, k + 2, Append(acc, BSP))
                       ELSE IF c = "f" THEN ParseStringBody(s, k + 2, Append(acc, FF))
                       ELSE IF c = "n" THEN ParseStringBody(s, k + 2, Append(acc, NL))
                       ELSE IF c = "r" THEN ParseStringBody(s, k + 2, Append(acc, CR))
                       ELSE IF c = "t" THEN ParseStringBody(s, k + 2, Append(acc, TAB))
                       ELSE IF c = "u" /\ k + 5 <= Len(s)
                               /\ \A m \in (k + 2)..(k + 5) : s[m] \in HexCh
                       THEN ParseStringBody(s, k + 6,
                                Append(acc, CharOf(HexVal(SubSeq(s, k + 2, k + 5)))))
                       ELSE ParseFail
    ELSE IF s[k] \in Control THEN ParseFail
    ELSE ParseStringBody(s, k + 1, Append(acc, s[k]))

\* the index after the numeral that starts at i, 0 when none does
NumberEnd(s, i) ==
    LET a == IF At(s, i, "-") THEN i + 1 ELSE i
        b == IF At(s, a, "0") THEN a + 1
             ELSE IF In(s, a, Digit) THEN Skip(s, a, Digit) ELSE 0
        c == IF b = 0 THEN 0
             ELSE IF At(s, b, ".")
                  THEN IF In(s, b + 1, Digit) THEN Skip(s, b + 1, Digit) ELSE 0
                  ELSE b
        d == IF c = 0 THEN 0
             ELSE IF In(s, c, {"e", "E"})
                  THEN LET e == IF In(s, c + 1, {"+", "-"}) THEN c + 2 ELSE c + 1
                       IN  IF In(s, e, Digit) THEN Skip(s, e, Digit) ELSE 0
                  ELSE c
    IN  d

RECURSIVE ParseValue(_, _)
RECURSIVE ParseElements(_, _, _)
RECURSIVE ParseMembers(_, _, _)

\* the value that starts at index i (white space already skipped)
ParseValue(s, i) ==
    IF i > Len(s) THEN ParseFail
    ELSE IF s[i] = "{"
         THEN LET k == Skip(s, i + 1, JsonWs)
              IN  IF At(s, k, "}") THEN ParseOk(<<"obj", {}>>, k + 1)
                  ELSE ParseMembers(s, k, {})
    ELSE IF s[i] = "["
         THEN LET k == Skip(s, i + 1, JsonWs)
              IN  IF At(s, k, "]") THEN ParseOk(<<"arr", <<>>>>, k + 1)
                  ELSE ParseElements(s, k, <<>>)
    ELSE IF s[i] = DQ
         THEN LET r == ParseStringBody(s, i + 1, <<>>)
              IN  IF r.ok THEN ParseOk(<<"str", r.val>>, r.next) ELSE ParseFail
    ELSE IF StartsAt(s, i, Wnull) THEN ParseOk(<<"lit", "null">>, i + 4)
    ELSE IF StartsAt(s, i, Wtrue) THEN ParseOk(<<"lit", "true">>, i + 4)
    ELSE IF StartsAt(s, i, Wfalse) THEN ParseOk(<<"lit", "false">>, i + 5)
    ELSE LET e == NumberEnd(s, i)
         IN  IF e = 0 THEN ParseFail
             ELSE ParseOk(<<"num", SubSeq(s, i, e - 1)>>, e)

\* the elements of an array from index k, after those of acc
ParseElements(s, k, acc) ==
    LET v == ParseValue(s, k)
    IN  IF ~v.ok THEN ParseFail
        ELSE LET k2 == Skip(s, v.next, JsonWs)
             IN  IF At(s, k2, ",")
                 THEN ParseElements(s, Skip(s, k2 + 1, JsonWs), Append(acc, v.val))
                 ELSE IF At(s, k2, "]")
                 THEN ParseOk(<<"arr", Append(acc, v.val)>>, k2 + 1)
                 ELSE ParseFail

\* the members of an object from index k, after those of acc
ParseMembers(s, k, acc) ==
    IF ~At(s, k, DQ) THEN ParseFail
    ELSE LET key == ParseStringBody(s, k + 1, <<>>)
         IN  IF ~key.ok THEN ParseFail
             ELSE LET k2 == Skip(s, key.next, JsonWs)
                  IN  IF ~At(s, k2, ":") THEN ParseFail
                      ELSE LET v == ParseValue(s, Skip(s, k2 + 1, JsonWs))
                           IN  IF ~v.ok THEN ParseFail
                               ELSE LET k4 == Skip(s, v.next, JsonWs)
                                        acc2 == {m \in acc : m[1] # key.val}
                                                  \cup {<<key.val, v.val>>}
                                    IN  IF At(s, k4, ",")
                                        THEN ParseMembers(s, Skip(s, k4 + 1, JsonWs), acc2)
                                        ELSE IF At(s, k4, "}")
                                        THEN ParseOk(<<"obj", acc2>>, k4 + 1)
                                        ELSE ParseFail

\* JSONMan.parse(jsonString): success and data of the ParseResult
parse(s) ==
    LET ParseResult(v) ==
            IF v.ok /\ Skip(s, v.next, JsonWs) = Len(s) + 1
            THEN [success |-> TRUE, data |-> v.val]
            ELSE [success |-> FALSE, data |-> <<>>]
    IN  ParseResult(ParseValue(s, Skip(s, 1, JsonWs)))

-----------------------------------------------------------------------------
(* FixReport: what a pass pushes onto `fixes`. position.start is always 0   *)
(* and position.end the length of the pass output, except for the BOM.      *)

Report(type, description, original, fixedText) ==
    [type |-> type, description |-> description,
     original |-> original, fixed |-> fixedText]

\* the value of a pass: its returned text and the array `fixes` after it
Out(text, fx) == [text |-> text, fixes |-> fx]

-----------------------------------------------------------------------------
(* Step 2: removeComments.                                                  *)

\* /\/\*[\s\S]*?\*\//g : a block comment from i to its earliest closing */
MatchBlockComment(s, i) ==
    IF StartsAt(s, i, <<"/", "*">>)
    THEN LET ends == {k \in (i + 2)..Len(s) : StartsAt(s, k, <<"*", "/">>)}
         IN  IF ends = {} THEN 0
             ELSE (CHOOSE k \in ends : \A m \in ends : k <= m) + 2
    ELSE 0

\* the callback of lines.map: the loop over i < line.length - 1, from index i
\* with the flags inString and escaped; its value is the kept line
RECURSIVE LineScan(_, _, _, _)
LineScan(line, i, inString, escaped) ==
    IF i > Len(line) - 1 THEN line
    ELSE IF escaped THEN LineScan(line, i + 1, inString, FALSE)
    ELSE IF line[i] = BSL THEN LineScan(line, i + 1, inString, TRUE)
    ELSE LET inStr == IF line[i] = DQ THEN ~inString ELSE inString
         IN  IF ~inStr /\ line[i] = "/" /\ line[i + 1] = "/"
             THEN Trim(SubSeq(line, 1, i - 1))
             ELSE LineScan(line, i + 1, inStr, FALSE)

StripLineComments(text) ==
    LET lines == Split(text, NL)
    IN  Join([k \in 1..Len(lines) |-> LineScan(lines[k], 1, FALSE, FALSE)], <<NL>>)

removeComments(text, fx) ==
    LET multi   == Matches(text, MatchBlockComment)
        result1 == IF multi
                   THEN ReplaceAll(text, MatchBlockComment, LAMBDA s, i, j : <<" ">>)
                   ELSE text
        cleaned == StripLineComments(result1)
        hasChanges == multi \/ cleaned # result1
    IN  Out(cleaned,
            IF hasChanges
            THEN Append(fx, Report("other", "Removed comments", text, cleaned))
            ELSE fx)

-----------------------------------------------------------------------------
(* Step 3: convertLiterals.                                                 *)

\* /\bW\b/g for a word W of word characters
MatchWord(s, i, w) ==
    IF StartsAt(s, i, w) /\ WordBoundary(s, i) /\ WordBoundary(s, i + Len(w))
    THEN i + Len(w) ELSE 0

ReplaceWord(s, w, r) ==
    ReplaceAll(s, LAMBDA t, i : MatchWord(t, i, w), LAMBDA t, i, j : r)

literalReplacements ==
    << <<WNone, Wnull>>, <<WUndefined, Wnull>>, <<WNULL, Wnull>>,
       <<WTrue, Wtrue>>, <<WFalse, Wfalse>> >>

\* the loop over literalReplacements from entry k: the text and hasChanges
RECURSIVE ApplyLiterals(_, _, _)
ApplyLiterals(s, changed, k) ==
    IF k > Len(literalReplacements) THEN [text |-> s, hasChanges |-> changed]
    ELSE LET w == literalReplacements[k][1]
         IN  IF Matches(s, LAMBDA t, i : MatchWord(t, i, w))
             THEN ApplyLiterals(ReplaceWord(s, w, literalReplacements[k][2]),
                                TRUE, k + 1)
             ELSE ApplyLiterals(s, changed, k + 1)

convertLiterals(text, fx) ==
    LET r == ApplyLiterals(text, FALSE, 1)
    IN  Out(r.text,
            IF r.hasChanges
            THEN Append(fx, Report("other", "Converted literals to JSON format",
                                   text, r.text))
            ELSE fx)

-----------------------------------------------------------------------------
(* Step 4: convertHexNumbers.                                               *)

\* /\b0x([0-9A-Fa-f]+)\b/g : the greedy run of hex digits must end at a word
\* boundary; a shorter run ends between two word characters
MatchHex(s, i) ==
    IF WordBoundary(s, i) /\ StartsAt(s, i, <<"0", "x">>) /\ In(s, i + 2, HexCh)
    THEN LET e == Skip(s, i + 2, HexCh)
         IN  IF WordBoundary(s, e) THEN e ELSE 0
    ELSE 0

convertHexNumbers(text, fx) ==
    LET hasChanges == Matches(text, MatchHex)
        res == ReplaceAll(text, MatchHex,
                             LAMBDA s, i, j : DecStr(HexVal(SubSeq(s, i + 2, j - 1))))
    IN  Out(res,
            IF hasChanges
            THEN Append(fx, Report("other", "Converted hex numbers to decimal",
                                   text, res))
            ELSE fx)

-----------------------------------------------------------------------------
(* Step 5: fixDuplicateDelimiters.                                          *)

\* /cc/g for a delimiter c
MatchPair(s, i, c) == IF At(s, i, c) /\ At(s, i + 1, c) THEN i + 2 ELSE 0

CollapsePair(s, c) ==
    ReplaceAll(s, LAMBDA t, i : MatchPair(t, i, c), LAMBDA t, i, j : <<c>>)

fixDuplicateDelimiters(text, fx) ==
    LET res == CollapsePair(CollapsePair(CollapsePair(CollapsePair(
                      text, "{"), "["), "}"), "]")
    IN  Out(res,
            IF res # text
            THEN Append(fx, Report("bracket", "Fixed duplicate delimiters",
                                   text, res))
            ELSE fx)

-----------------------------------------------------------------------------
(* Step 6: fixSingleQuotes.                                                 *)

\* the inner while loop from j: the index of the closing quote, or an index
\* past the end of the text when there is none
RECURSIVE SingleQuoteClose(_, _)
SingleQuoteClose(s, j) ==
    IF j > Len(s) THEN j
    ELSE IF s[j] = SQ THEN j
    ELSE IF s[j] = BSL /\ j + 1 <= Len(s) THEN SingleQuoteClose(s, j + 2)
    ELSE SingleQuoteClose(s, j + 1)

\* newResult of the outer while loop, from index i
RECURSIVE SingleQuoteScan(_, _)
SingleQuoteScan(s, i) ==
    IF i > Len(s) THEN <<>>
    ELSE IF s[i] = SQ
         THEN LET j == SingleQuoteClose(s, i + 1)
              IN  IF j <= Len(s)
                  THEN <<DQ>> \o SubSeq(s, i + 1, j - 1) \o <<DQ>>
                         \o SingleQuoteScan(s, j + 1)
                  ELSE <<s[i]>> \o SingleQuoteScan(s, i + 1)
         ELSE <<s[i]>> \o SingleQuoteScan(s, i + 1)

\* hasChanges: some single quote met by the outer loop has a closing quote
RECURSIVE SingleQuoteFound(_, _)
SingleQuoteFound(s, i) ==
    IF i > Len(s) THEN FALSE
    ELSE IF s[i] = SQ
         THEN SingleQuoteClose(s, i + 1) <= Len(s) \/ SingleQuoteFound(s, i + 1)
         ELSE SingleQuoteFound(s, i + 1)

fixSingleQuotes(text, fx) ==
    LET hasChanges == SingleQuoteFound(text, 1)
        res == IF hasChanges THEN SingleQuoteScan(text, 1) ELSE text
    IN  Out(res,
            IF hasChanges
            THEN Append(fx, Report("quote", "Converted single quotes to double quotes",
                                   text, res))
            ELSE fx)

-----------------------------------------------------------------------------
(* Step 7: fixUnescapedQuotes.                                              *)

\* problematicQuotePattern, /"([^"\\]*)"(\s*)([^"\\]+)"(\s*)([^"\\]*)"(?=\s*[,}\]])/g :
\* four quotes in a row with no backslash between them; the first two enclose
\* part1, space1 and middle lie between the second and the third, space2 and
\* part2 between the third and the fourth.

\* the indices of the quotes of the match that starts at i and the start of
\* middle; q1 = 0 when the expression does not match at i
UnescapedQuoteGroups(s, i) ==
    LET q2 == Find(s, i + 1, {DQ, BSL})
        q3 == Find(s, q2 + 1, {DQ, BSL})
        q4 == Find(s, q3 + 1, {DQ, BSL})
        \* \s* is greedy but leaves one character to [^"\\]+
        w  == Skip(s, q2 + 1, Space)
        m  == IF w = q3 THEN q3 - 1 ELSE w
    IN  IF At(s, i, DQ) /\ At(s, q2, DQ) /\ At(s, q3, DQ) /\ q3 > q2 + 1
           /\ At(s, q4, DQ) /\ In(s, Skip(s, q4 + 1, Space), {",", "}", "]"})
        THEN [q1 |-> i, q2 |-> q2, m |-> m, q3 |-> q3, q4 |-> q4]
        ELSE [q1 |-> 0, q2 |-> 0, m |-> 0, q3 |-> 0, q4 |-> 0]

MatchUnescapedQuote(s, i) ==
    LET g == UnescapedQuoteGroups(s, i) IN IF g.q1 = 0 THEN 0 ELSE g.q4 + 1

\* the condition of the replace callback on middle
MiddleIsQuoted(s, i) ==
    LET g == UnescapedQuoteGroups(s, i)
        middle == SubSeq(s, g.m, g.q3 - 1)
    IN  /\ g.q1 # 0
        /\ Len(Trim(middle)) > 0
        /\ ~Includes(middle, <<":">>)
        /\ ~Includes(middle, <<"{">>)
        /\ ~Includes(middle, <<"[">>)

RepUnescapedQuote(s, i, j) ==
    LET g == UnescapedQuoteGroups(s, i)
    IN  IF MiddleIsQuoted(s, i)
        THEN <<DQ>> \o SubSeq(s, i + 1, g.q2 - 1) \o SubSeq(s, g.q2 + 1, g.m - 1)
               \o <<BSL, DQ>> \o SubSeq(s, g.m, g.q3 - 1) \o <<BSL, DQ>>
               \o SubSeq(s, g.q3 + 1, g.q4 - 1) \o <<DQ>>
        ELSE SubSeq(s, i, j - 1)

\* the start indices of the matches the global replace visits
MatchStarts(s, Match(_, _)) ==
    LET st[i \in 1..(Len(s) + 1)] ==
            IF i > Len(s) THEN {}
            ELSE LET j == Match(s, i)
                 IN  IF j = 0 THEN st[i + 1] ELSE {i} \cup st[j]
    IN  st[1]

fixUnescapedQuotes(text, fx) ==
    LET res == ReplaceAll(text, MatchUnescapedQuote, RepUnescapedQuote)
        hasChanges == \E i \in MatchStarts(text, MatchUnescapedQuote) :
                          MiddleIsQuoted(text, i)
    IN  Out(res,
            IF hasChanges
            THEN Append(fx, Report("quote", "Fixed unescaped quotes in string values",
                                   text, res))
            ELSE fx)

-----------------------------------------------------------------------------
(* Step 8: fixEscapeSequences.                                              *)

\* /\\x[0-9A-Fa-f]{2}/g
MatchHexEscape(s, i) ==
    IF StartsAt(s, i, <<BSL, "x">>) /\ In(s, i + 2, HexCh) /\ In(s, i + 3, HexCh)
    THEN i + 4 ELSE 0

\* /\\u[0-9A-Fa-f]{4}/g
MatchUnicodeEscape(s, i) ==
    IF StartsAt(s, i, <<BSL, "u">>) /\ \A k \in (i + 2)..(i + 5) : In(s, k, HexCh)
    THEN i + 6 ELSE 0

\* JSON.parse(`"${match}"`) of a \uNNNN escape: the one character it spells; the
\* parse of such a literal never throws, so the catch branch is never taken
RepUnicodeEscape(s, i, j) == <<CharOf(HexVal(SubSeq(s, i + 2, i + 5)))>>

fixEscapeSequences(text, fx) ==
    LET noHex == ReplaceAll(text, MatchHexEscape, LAMBDA s, i, j : <<>>)
        hasChanges == noHex # text
        res == ReplaceAll(noHex, MatchUnicodeEscape, RepUnicodeEscape)
    IN  Out(res,
            IF hasChanges
            THEN Append(fx, Report("other", "Fixed invalid escape sequences",
                                   text, res))
            ELSE fx)

-----------------------------------------------------------------------------
(* Step 9: quoteUnquotedKeys.                                               *)

\* /([{,]\s*)([a-zA-Z_$][a-zA-Z0-9_$]*)\s*:/g : the start of the key, the index
\* after it and the index after the colon; all 0 when there is no match at i
UnquotedKeyGroups(s, i) ==
    LET a == Skip(s, i + 1, Space)
        b == Skip(s, a + 1, IdCh)
        c == Skip(s, b, Space)
    IN  IF In(s, i, {"{", ","}) /\ In(s, a, IdStart) /\ At(s, c, ":")
        THEN [key |-> a, keyEnd |-> b, end |-> c + 1]
        ELSE [key |-> 0, keyEnd |-> 0, end |-> 0]

MatchUnquotedKey(s, i) == UnquotedKeyGroups(s, i).end

RepUnquotedKey(s, i, j) ==
    LET g == UnquotedKeyGroups(s, i)
    IN  SubSeq(s, i, g.key - 1) \o <<DQ>> \o SubSeq(s, g.key, g.keyEnd - 1)
          \o <<DQ, ":">>

quoteUnquotedKeys(text, fx) ==
    LET res == ReplaceAll(text, MatchUnquotedKey, RepUnquotedKey)
    IN  Out(res,
            IF res # text
            THEN Append(fx, Report("quote", "Quoted unquoted keys", text, res))
            ELSE fx)

-----------------------------------------------------------------------------
(* Step 10: fixMissingCommas. Every replacement inserts a comma after the   *)
(* first group of its match. A match is [end |-> the index after it,        *)
(* g1 |-> the last index of the first group], both 0 when there is none.    *)

NoMatch == [end |-> 0, g1 |-> 0]

\* String.prototype.replace of the matches by themselves with a comma after
\* their first group
InsertCommas(s, M(_, _)) ==
    ReplaceAll(s, LAMBDA t, i : M(t, i).end,
               LAMBDA t, i, j : SubSeq(t, i, M(t, i).g1) \o <<",">>
                                  \o SubSeq(t, M(t, i).g1 + 1, j - 1))

\* /"([^"]*)"(\s+)"([^"]+)"(\s*):/g
CommaStringKey(s, i) ==
    LET q2 == Find(s, i + 1, {DQ})
        w  == Skip(s, q2 + 1, Space)
        q4 == Find(s, w + 1, {DQ})
        c  == Skip(s, q4 + 1, Space)
    IN  IF At(s, i, DQ) /\ At(s, q2, DQ) /\ w > q2 + 1 /\ At(s, w, DQ)
           /\ At(s, q4, DQ) /\ q4 > w + 1 /\ At(s, c, ":")
        THEN [end |-> c + 1, g1 |-> q2] ELSE NoMatch

\* /}(\s*)"([^"]+)"(\s*):/g and /](\s*)"([^"]+)"(\s*):/g, for the closer cl
CommaCloserKey(s, i, cl) ==
    LET w == Skip(s, i + 1, Space)
        q == Find(s, w + 1, {DQ})
        c == Skip(s, q + 1, Space)
    IN  IF At(s, i, cl) /\ At(s, w, DQ) /\ At(s, q, DQ) /\ q > w + 1 /\ At(s, c, ":")
        THEN [end |-> c + 1, g1 |-> i] ELSE NoMatch

\* /(\w+)(\s+)(\w+)(\s*):/g
CommaWordKey(s, i) ==
    LET a == Skip(s, i, WordCh)
        b == Skip(s, a, Space)
        c == Skip(s, b, WordCh)
        d == Skip(s, c, Space)
    IN  IF a > i /\ b > a /\ c > b /\ At(s, d, ":")
        THEN [end |-> d + 1, g1 |-> a - 1] ELSE NoMatch

\* ("?\w+"?\s*:) from index b: the index after the colon, 0 when it does not match
KeyTail(s, b) ==
    LET b1 == IF At(s, b, DQ) THEN b + 1 ELSE b
        c  == Skip(s, b1, WordCh)
        c1 == IF At(s, c, DQ) THEN c + 1 ELSE c
        d  == Skip(s, c1, Space)
    IN  IF c > b1 /\ At(s, d, ":") THEN d + 1 ELSE 0

\* /(\d+|true|false|null)(\s+)("?\w+"?\s*:)/g
CommaScalarKey(s, i) ==
    LET e == IF In(s, i, Digit) THEN Skip(s, i, Digit)
             ELSE IF StartsAt(s, i, Wtrue) THEN i + 4
             ELSE IF StartsAt(s, i, Wfalse) THEN i + 5
             ELSE IF StartsAt(s, i, Wnull) THEN i + 4
             ELSE 0
        b == Skip(s, e, Space)
    IN  IF e # 0 /\ b > e /\ KeyTail(s, b) # 0
        THEN [end |-> KeyTail(s, b), g1 |-> e - 1] ELSE NoMatch

\* /}(\s*){/g, /](\s*)\[/g, /}(\s*)\[/g, /](\s*){/g : closer cl, opener op
CommaCloserOpener(s, i, cl, op) ==
    LET w == Skip(s, i + 1, Space)
    IN  IF At(s, i, cl) /\ At(s, w, op) THEN [end |-> w + 1, g1 |-> i] ELSE NoMatch

\* "(?:[^"\\]|\\.)*" from the index k after the opening quote: the index of the
\* closing quote, 0 when the literal is not closed (`.` matches no line terminator)
RECURSIVE StringLiteralEnd(_, _)
StringLiteralEnd(s, k) ==
    IF k > Len(s) THEN 0
    ELSE IF s[k] = DQ THEN k
    ELSE IF s[k] = BSL
         THEN IF k + 1 <= Len(s) /\ s[k + 1] \notin LineTerm
              THEN StringLiteralEnd(s, k + 2) ELSE 0
    ELSE StringLiteralEnd(s, k + 1)

\* /("(?:[^"\\]|\\.)*")(\s+)("?\w+"?\s*:)/g
CommaValueKey(s, i) ==
    LET e == IF At(s, i, DQ) THEN StringLiteralEnd(s, i + 1) ELSE 0
        b == Skip(s, e + 1, Space)
    IN  IF e # 0 /\ b > e + 1 /\ KeyTail(s, b) # 0
        THEN [end |-> KeyTail(s, b), g1 |-> e] ELSE NoMatch

fixMissingCommas(text, fx) ==
    LET r1  == InsertCommas(text, CommaStringKey)
        r2  == InsertCommas(r1, LAMBDA t, i : CommaCloserKey(t, i, "}"))
        r3  == InsertCommas(r2, LAMBDA t, i : CommaCloserKey(t, i, "]"))
        r4  == InsertCommas(r3, CommaWordKey)
        r5  == InsertCommas(r4, CommaScalarKey)
        r6  == InsertCommas(r5, LAMBDA t, i : CommaCloserOpener(t, i, "}", "{"))
        r7  == InsertCommas(r6, LAMBDA t, i : CommaCloserOpener(t, i, "]", "["))
        r8  == InsertCommas(r7, LAMBDA t, i : CommaCloserOpener(t, i, "}", "["))
        r9  == InsertCommas(r8, LAMBDA t, i : CommaCloserOpener(t, i, "]", "{"))
        res == InsertCommas(r9, CommaValueKey)
    IN  Out(res,
            IF res # text
            THEN Append(fx, Report("comma", "Added missing commas", text, res))
            ELSE fx)

-----------------------------------------------------------------------------
(* Step 11: fixDoubleCommas, and step 12: fixTrailingCommas.                *)

\* a, then white space, then b : /,(\s*),/g, /\[(\s*),/g, /,(\s*)\]/g
MatchGap(s, i, a, b) ==
    LET w == Skip(s, i + 1, Space)
    IN  IF At(s, i, a) /\ At(s, w, b) THEN w + 1 ELSE 0

ReplaceGap(s, a, b, r) ==
    ReplaceAll(s, LAMBDA t, i : MatchGap(t, i, a, b), LAMBDA t, i, j : <<r>>)

fixDoubleCommas(text, fx) ==
    LET res == ReplaceGap(ReplaceGap(ReplaceGap(text, ",", ",", ","),
                                     "[", ",", "["), ",", "]", "]")
    IN  Out(res,
            IF res # text
            THEN Append(fx, Report("comma", "Fixed double commas and empty slots",
                                   text, res))
            ELSE fx)

\* /,(\s*[}\]])/g
MatchTrailingComma(s, i) ==
    LET w == Skip(s, i + 1, Space)
    IN  IF At(s, i, ",") /\ In(s, w, {"}", "]"}) THEN w + 1 ELSE 0

\* /,(\s*\n\s*[}\]])/g : the white space holds a newline
MatchTrailingCommaNewline(s, i) ==
    LET w == Skip(s, i + 1, Space)
    IN  IF At(s, i, ",") /\ In(s, w, {"}", "]"})
           /\ \E k \in (i + 1)..(w - 1) : s[k] = NL
        THEN w + 1 ELSE 0

\* the replacement '$1' of both: the match without its comma
RepDropFirst(s, i, j) == SubSeq(s, i + 1, j - 1)

fixTrailingCommas(text, fx) ==
    LET res == ReplaceAll(ReplaceAll(text, MatchTrailingComma, RepDropFirst),
                          MatchTrailingCommaNewline, RepDropFirst)
    IN  Out(res,
            IF res # text
            THEN Append(fx, Report("comma", "Removed trailing commas", text, res))
            ELSE fx)

-----------------------------------------------------------------------------
(* Step 13: balanceBrackets.                                                *)

\* String.prototype.replace with a regular expression that is not global: only
\* the leftmost match is replaced
ReplaceFirst(s, Match(_, _), Rep(_, _, _)) ==
    LET starts == {i \in 1..Len(s) : Match(s, i) # 0}
    IN  IF starts = {} THEN s
        ELSE LET i == CHOOSE k \in starts : \A m \in starts : k <= m
             IN  SubSeq(s, 1, i - 1) \o Rep(s, i, Match(s, i)) \o From(s, Match(s, i))

\* /[{,]\s*\w+\s*:\s*$/
MatchDanglingKey(s, i) ==
    LET a == Skip(s, i + 1, Space)
        b == Skip(s, a, WordCh)
        c == Skip(s, b, Space)
        d == Skip(s, c + 1, Space)
    IN  IF In(s, i, {"{", ","}) /\ b > a /\ At(s, c, ":") /\ d = Len(s) + 1
        THEN d ELSE 0

\* AppendNull without lines 577-580: only the pattern of line 583 appends null
AppendNullPatternOnly(text) ==
    IF Matches(text, MatchDanglingKey) THEN text \o Wnull ELSE text

\* lines 576-586: the text with null appended after a final colon
AppendNull(text) ==
    LET r1 == IF EndsWith(text, <<":">>) THEN text \o Wnull ELSE text
    IN  IF Matches(r1, MatchDanglingKey) THEN r1 \o Wnull ELSE r1

Push(stack, c) == Append(stack, c)
Pop(stack) == SubSeq(stack, 1, Len(stack) - 1)
Top(stack) == stack[Len(stack)]

\* lines 597-626: the array `corrections` of the scan from index i, as the set
\* of <<pos, to>>; stack holds the expected closers of the open delimiters
RECURSIVE Corrections(_, _, _, _, _)
Corrections(s, i, stack, inString, escaped) ==
    IF i > Len(s) THEN {}
    ELSE IF escaped THEN Corrections(s, i + 1, stack, inString, FALSE)
    ELSE IF s[i] = BSL THEN Corrections(s, i + 1, stack, inString, TRUE)
    ELSE IF s[i] = DQ THEN Corrections(s, i + 1, stack, ~inString, FALSE)
    ELSE IF inString THEN Corrections(s, i + 1, stack, inString, FALSE)
    ELSE IF s[i] = "{" THEN Corrections(s, i + 1, Push(stack, "}"), inString, FALSE)
    ELSE IF s[i] = "[" THEN Corrections(s, i + 1, Push(stack, "]"), inString, FALSE)
    ELSE IF s[i] \in {"}", "]"} /\ Len(stack) > 0
         THEN (IF Top(stack) # s[i] THEN {<<i, Top(stack)>>} ELSE {})
                \cup Corrections(s, i + 1, Pop(stack), inString, FALSE)
    ELSE Corrections(s, i + 1, stack, inString, FALSE)

\* lines 629-632: every correction replaces the one character at its position
ApplyCorrections(s, corrections) ==
    [p \in 1..Len(s) |->
        IF \E c \in corrections : c[1] = p
        THEN (CHOOSE c \in corrections : c[1] = p)[2]
        ELSE s[p]]

\* lines 588-633
FixMismatches(s) ==
    IF Includes(s, <<"[">>) /\ Includes(s, <<"}">>)
    THEN ApplyCorrections(s, Corrections(s, 1, <<>>, FALSE, FALSE))
    ELSE s

\* /,\s*$/
MatchFinalComma(s, i) ==
    IF At(s, i, ",") /\ Skip(s, i + 1, Space) = Len(s) + 1 THEN Len(s) + 1 ELSE 0

\* lines 637-641
DropFinalComma(s) == ReplaceFirst(s, MatchFinalComma, LAMBDA t, i, j : <<>>)

\* lines 644-679: openStack after the scan from index i
RECURSIVE OpenStack(_, _, _, _, _)
OpenStack(s, i, stack, stringMode, escapeNext) ==
    IF i > Len(s) THEN stack
    ELSE IF escapeNext THEN OpenStack(s, i + 1, stack, stringMode, FALSE)
    ELSE IF s[i] = BSL THEN OpenStack(s, i + 1, stack, stringMode, TRUE)
    ELSE IF s[i] = DQ THEN OpenStack(s, i + 1, stack, ~stringMode, FALSE)
    ELSE IF stringMode THEN OpenStack(s, i + 1, stack, stringMode, FALSE)
    ELSE IF s[i] = "{" THEN OpenStack(s, i + 1, Push(stack, "}"), stringMode, FALSE)
    ELSE IF s[i] = "[" THEN OpenStack(s, i + 1, Push(stack, "]"), stringMode, FALSE)
    ELSE IF s[i] \in {"}", "]"} /\ Len(stack) > 0
         THEN OpenStack(s, i + 1, Pop(stack), stringMode, FALSE)
    ELSE OpenStack(s, i + 1, stack, stringMode, FALSE)

\* lines 682-685: the closers popped off openStack, innermost first
Closers(stack) == [k \in 1..Len(stack) |-> stack[Len(stack) + 1 - k]]

\* the text balanceBrackets returns
Balanced(text) ==
    LET r == DropFinalComma(FixMismatches(AppendNull(text)))
    IN  r \o Closers(OpenStack(r, 1, <<>>, FALSE, FALSE))

balanceBrackets(text, fx) ==
    LET r1  == AppendNull(text)
        r2  == FixMismatches(r1)
        r3  == DropFinalComma(r2)
        res == Balanced(text)
        \* hasChanges is set by every step that acts, also when a replaced
        \* character equals the one written (never, a correction differs)
        hasChanges == \/ r1 # text
                      \/ r2 # r1
                      \/ Matches(r2, MatchFinalComma)
                      \/ res # r3
    IN  Out(res,
            IF hasChanges
            THEN Append(fx, Report("bracket",
                     "Balanced brackets and completed incomplete structures",
                     text, res))
            ELSE fx)

-----------------------------------------------------------------------------
(* Step 14: handleMultipleRoots.                                            *)

\* lines 711-746: objectSections (their texts) of the scan of trimmed from i
RECURSIVE ObjectSections(_, _, _, _, _, _)
ObjectSections(s, i, braceCount, start, inString, escaped) ==
    IF i > Len(s) THEN <<>>
    ELSE IF escaped THEN ObjectSections(s, i + 1, braceCount, start, inString, FALSE)
    ELSE IF s[i] = BSL THEN ObjectSections(s, i + 1, braceCount, start, inString, TRUE)
    ELSE IF s[i] = DQ THEN ObjectSections(s, i + 1, braceCount, start, ~inString, FALSE)
    ELSE IF inString THEN ObjectSections(s, i + 1, braceCount, start, inString, FALSE)
    ELSE IF s[i] = "{"
         THEN ObjectSections(s, i + 1, braceCount + 1,
                             IF braceCount = 0 THEN i ELSE start, inString, FALSE)
    ELSE IF s[i] = "}"
         THEN (IF braceCount - 1 = 0 THEN <<SubSeq(s, start, i)>> ELSE <<>>)
                \o ObjectSections(s, i + 1, braceCount - 1, start, inString, FALSE)
    ELSE ObjectSections(s, i + 1, braceCount, start, inString, FALSE)

\* Array.prototype.filter
Filter(seq, Keep(_)) ==
    LET f[k \in 0..Len(seq)] ==
            IF k = 0 THEN <<>>
            ELSE IF Keep(seq[k]) THEN Append(f[k - 1], seq[k]) ELSE f[k - 1]
    IN  f[Len(seq)]

\* lines 749-761: the trimmed sections that parse
ValidObjects(sections) ==
    Filter([k \in 1..Len(sections) |-> Trim(sections[k])],
           LAMBDA t : parse(t).success)

\* line 782: the line trimmed, without one final comma
CleanLine(line) ==
    LET t == Trim(line)
    IN  IF EndsWith(t, <<",">>) THEN SubSeq(t, 1, Len(t) - 1) ELSE t

\* lines 778-793: the clean lines that are objects and parse
ObjectLines(trimmed) ==
    LET lines == Split(trimmed, NL)
    IN  Filter([k \in 1..Len(lines) |-> CleanLine(lines[k])],
               LAMBDA t : StartsAt(t, 1, <<"{">>) /\ EndsWith(t, <<"}">>)
                            /\ parse(t).success)

WrapArray(parts) == <<"[">> \o Join(parts, <<",">>) \o <<"]">>

handleMultipleRoots(text, fx) ==
    LET Converted(description, res) ==
            Out(res, Append(fx, Report("other", description, text, res)))
        Rows(trimmed, rows) ==
            IF (Includes(trimmed, <<"}", NL, "{">>)
                  \/ Includes(trimmed, <<"}", ",", NL, "{">>)) /\ Len(rows) > 1
            THEN Converted("Converted CSV-style object rows to array", WrapArray(rows))
            ELSE Out(text, fx)
        Sections(trimmed, sections, validObjects) ==
            IF Len(sections) > 1 /\ Len(validObjects) > 1
            THEN Converted("Converted multiple root objects to array",
                           WrapArray(validObjects))
            ELSE Rows(trimmed, ObjectLines(trimmed))
        Scan(trimmed, sections) == Sections(trimmed, sections, ValidObjects(sections))
        Trimmed(trimmed) == Scan(trimmed, ObjectSections(trimmed, 1, 0, 1, FALSE, FALSE))
    IN  Trimmed(Trim(text))

-----------------------------------------------------------------------------
(* Step 15: removeDanglingArtifacts.                                        *)

\* /:\s*["']?\s*$/
MatchDanglingColon(s, i) ==
    LET a == Skip(s, i + 1, Space)
        b == IF In(s, a, {DQ, SQ}) THEN a + 1 ELSE a
    IN  IF At(s, i, ":") /\ Skip(s, b, Space) = Len(s) + 1 THEN Len(s) + 1 ELSE 0

\* /[,:;]\s*$/
MatchDanglingMark(s, i) ==
    IF In(s, i, {",", ":", ";"}) /\ Skip(s, i + 1, Space) = Len(s) + 1
    THEN Len(s) + 1 ELSE 0

removeDanglingArtifacts(text, fx) ==
    LET res == ReplaceFirst(ReplaceFirst(text, MatchDanglingColon,
                                         LAMBDA t, i, j : <<>>),
                            MatchDanglingMark, LAMBDA t, i, j : <<>>)
    IN  Out(res,
            IF res # text
            THEN Append(fx, Report("other", "Removed dangling artifacts", text, res))
            ELSE fx)

-----------------------------------------------------------------------------
(* Step 16: unescapeStringifiedJSON.                                        *)

\* maxIterations
MaxIterations == 10

\* stringPattern, /"([^"\\]*(\\.[^"\\]*)*)"/g : a quoted literal with its escapes
MatchStringLiteral(s, i) ==
    LET e == IF At(s, i, DQ) THEN StringLiteralEnd(s, i + 1) ELSE 0
    IN  IF e = 0 THEN 0 ELSE e + 1

\* a literal text w
MatchText(s, i, w) == IF StartsAt(s, i, w) THEN i + Len(w) ELSE 0

\* content.replace(/\\"/g, '"').replace(/\\\\/g, '\\')
Unescape(content) ==
    ReplaceAll(ReplaceAll(content, LAMBDA t, i : MatchText(t, i, <<BSL, DQ>>),
                          LAMBDA t, i, j : <<DQ>>),
               LAMBDA t, i : MatchText(t, i, <<BSL, BSL>>), LAMBDA t, i, j : <<BSL>>)

\* the replace callback returns `unescaped` for the literal s[i..j-1]: its content
\* looks like stringified JSON and its unescaped form parses. JSONMan.parse
\* returns a result and never throws, so the catch of line 426, with its
\* recursive call of fix, is never entered.
IsStringified(s, i, j) ==
    LET content == SubSeq(s, i + 1, j - 2)
    IN  /\ Includes(content, <<BSL, DQ>>)
        /\ Includes(content, <<"{">>) \/ Includes(content, <<"[">>)
        /\ parse(Unescape(content)).success

RepStringified(s, i, j) ==
    IF IsStringified(s, i, j) THEN Unescape(SubSeq(s, i + 1, j - 2))
    ELSE SubSeq(s, i, j - 1)

\* the while loop with maxIterations iterations left
RECURSIVE UnescapeLoop(_, _, _)
UnescapeLoop(s, maxIterations, hasChanges) ==
    IF maxIterations > 0
    THEN LET iterationChanges ==
                 \E i \in MatchStarts(s, MatchStringLiteral) :
                     IsStringified(s, i, MatchStringLiteral(s, i))
         IN  IF iterationChanges
             THEN UnescapeLoop(ReplaceAll(s, MatchStringLiteral, RepStringified),
                               maxIterations - 1, TRUE)
             ELSE [text |-> s, hasChanges |-> hasChanges]
    ELSE [text |-> s, hasChanges |-> hasChanges]

unescapeStringifiedJSON(text, fx) ==
    LET Done(r) ==
            Out(r.text,
                IF r.hasChanges
                THEN Append(fx, Report("other", "Unescaped stringified JSON",
                                       text, r.text))
                ELSE fx)
    IN  Done(UnescapeLoop(text, MaxIterations, FALSE))

-----------------------------------------------------------------------------
(* finalFixAttempt.                                                         *)

WInfinity == <<"I", "n", "f", "i", "n", "i", "t", "y">>

\* !isNaN(Number(t)) for a trimmed text t that is not empty: t is a
\* StrNumericLiteral
IsNumeric(t) ==
    LET a == IF In(t, 1, {"+", "-"}) THEN 2 ELSE 1
        b == Skip(t, a, Digit)
        c == IF At(t, b, ".") THEN Skip(t, b + 1, Digit) ELSE b
        hasDigits == b > a \/ (At(t, b, ".") /\ c > b + 1)
        e == IF In(t, c, {"e", "E"})
             THEN LET x == IF In(t, c + 1, {"+", "-"}) THEN c + 2 ELSE c + 1
                  IN  IF In(t, x, Digit) THEN Skip(t, x, Digit) ELSE 0
             ELSE c
        radix(marks, digits) ==
            /\ At(t, 1, "0") /\ In(t, 2, marks) /\ Len(t) > 2
            /\ Skip(t, 3, digits) = Len(t) + 1
    IN  \/ From(t, a) = WInfinity
        \/ hasDigits /\ e = Len(t) + 1
        \/ radix({"x", "X"}, HexCh)
        \/ radix({"b", "B"}, {"0", "1"})
        \/ radix({"o", "O"}, {"0", "1", "2", "3", "4", "5", "6", "7"})

\* finalFixAttempt without the throw of line 874 and with line 888 quoting
\* every bare text, also one with spaces
finalFixAttemptQuotesProse(text) ==
    LET res == Trim(text)
        has(c) == Includes(res, <<c>>)
        ret(t) == [threw |-> FALSE, text |-> t]
    IN  IF res = <<>> \/ res = <<DQ, DQ>> THEN ret(Wnull)
        ELSE IF ~has("{") /\ ~has("[") /\ ~has(DQ) /\ res \in {Wtrue, Wfalse, Wnull}
             THEN ret(res)
        ELSE IF ~has("{") /\ ~has("[") /\ ~has(DQ) /\ IsNumeric(res) THEN ret(res)
        ELSE IF ~has("{") /\ ~has("[") /\ ~has(DQ) /\ ~has(":")
             THEN ret(<<DQ>> \o res \o <<DQ>>)
        ELSE ret(res)

\* the value of finalFixAttempt: threw is TRUE when it throws its Error
finalFixAttempt(text) ==
    LET res == Trim(text)
        has(c) == Includes(res, <<c>>)
        hasJsonStructure == has("{") \/ has("[") \/ has(":") \/ has(DQ)
        ret(t) == [threw |-> FALSE, text |-> t]
    IN  IF res = <<>> \/ res = <<DQ, DQ>> THEN ret(Wnull)
        ELSE IF StartsAt(res, 1, <<"/", "/">>) /\ ~has("{") /\ ~has("[") THEN ret(Wnull)
        ELSE IF ~hasJsonStructure /\ Len(Split(res, " ")) > 3
             THEN [threw |-> TRUE, text |-> <<>>]
        ELSE IF ~has("{") /\ ~has("[") /\ ~has(DQ) /\ res \in {Wtrue, Wfalse, Wnull}
             THEN ret(res)
        ELSE IF ~has("{") /\ ~has("[") /\ ~has(DQ) /\ IsNumeric(res) THEN ret(res)
        ELSE IF ~has("{") /\ ~has("[") /\ ~has(DQ) /\ ~has(" ")
             THEN ret(<<DQ>> \o res \o <<DQ>>)
        ELSE IF has(":") /\ ~StartsAt(res, 1, <<"{">>) /\ ~StartsAt(res, 1, <<"[">>)
             THEN ret(<<"{">> \o res \o <<"}">>)
        ELSE IF has("{") /\ ~has("}") THEN ret(res \o <<"}">>)
        ELSE IF has("[") /\ ~has("]") THEN ret(res \o <<"]">>)
        ELSE ret(res)

-----------------------------------------------------------------------------
(* JSONMan.fix: the FixResult.                                              *)

\* a FixResult; hasData tells whether the property data is present
FixResult(success, hasData, data, error, fx) ==
    [success |-> success, hasData |-> hasData, data |-> data,
     error |-> error, fixes |-> fx]

NoError == [class |-> "none", message |-> ""]
ParseError(message) == [class |-> "JSONParseError", message |-> message]

\* the value of `result` while a call runs
NoResult == FixResult(FALSE, FALSE, <<>>, NoError, <<>>)

\* Outcome without the parse of line 119: the final attempt is returned as data
\* whether or not it parses
OutcomeUnparsedAttempt(text, fx) ==
    LET Final(t, fa) ==
            IF fa.threw
            THEN FixResult(FALSE, FALSE, <<>>, ParseError("Failed to fix JSON"), <<>>)
            ELSE FixResult(TRUE, TRUE, fa.text, NoError,
                     Append(fx, Report("other", "Applied final recovery fixes",
                                       t, fa.text)))
        Trimmed(t) ==
            IF parse(t).success THEN FixResult(TRUE, TRUE, t, NoError, fx)
            ELSE Final(t, finalFixAttempt(t))
    IN  Trimmed(Trim(text))

\* Outcome without the catch of lines 142-148: the Error of finalFixAttempt
\* leaves fix as it was thrown
OutcomeUncaught(text, fx) ==
    LET Final(t, fa) ==
            IF fa.threw
            THEN FixResult(FALSE, FALSE, <<>>,
                     [class |-> "Error",
                      message |-> "Input appears to be plain text, not malformed JSON"],
                     fx)
            ELSE IF parse(fa.text).success
            THEN FixResult(TRUE, TRUE, fa.text, NoError,
                     Append(fx, Report("other", "Applied final recovery fixes",
                                       t, fa.text)))
            ELSE FixResult(FALSE, FALSE, <<>>,
                     ParseError("Unable to fix JSON after all attempts"), fx)
        Trimmed(t) ==
            IF parse(t).success THEN FixResult(TRUE, TRUE, t, NoError, fx)
            ELSE Final(t, finalFixAttempt(t))
    IN  Trimmed(Trim(text))

\* Outcome with the final attempt made before the parse of line 109, whether
\* or not the text the passes left parses
OutcomeFinalAttemptFirst(text, fx) ==
    LET Final(t, fa) ==
            IF fa.threw
            THEN FixResult(FALSE, FALSE, <<>>, ParseError("Failed to fix JSON"), <<>>)
            ELSE IF parse(fa.text).success
            THEN FixResult(TRUE, TRUE, fa.text, NoError,
                     Append(fx, Report("other", "Applied final recovery fixes",
                                       t, fa.text)))
            ELSE FixResult(FALSE, FALSE, <<>>,
                     ParseError("Unable to fix JSON after all attempts"), fx)
        Trimmed(t) == Final(t, finalFixAttempt(t))
    IN  Trimmed(Trim(text))

\* lines 105-148: the result of fix once the sixteen passes have run
Outcome(text, fx) ==
    LET Final(t, fa) ==
            IF fa.threw
            THEN FixResult(FALSE, FALSE, <<>>, ParseError("Failed to fix JSON"), <<>>)
            ELSE IF parse(fa.text).success
            THEN FixResult(TRUE, TRUE, fa.text, NoError,
                     Append(fx, Report("other", "Applied final recovery fixes",
                                       t, fa.text)))
            ELSE FixResult(FALSE, FALSE, <<>>,
                     ParseError("Unable to fix JSON after all attempts"), fx)
        Trimmed(t) ==
            IF parse(t).success THEN FixResult(TRUE, TRUE, t, NoError, fx)
            ELSE Final(t, finalFixAttempt(t))
    IN  Trimmed(Trim(text))

\* lines 49-58
stripBOM(text, fx) ==
    IF At(text, 1, BOM)
    THEN Out(Tail(text),
             Append(fx, Report("other", "Removed Unicode BOM", <<BOM>>, <<>>)))
    ELSE Out(text, fx)

-----------------------------------------------------------------------------
(* The texts the model calls fix on.                                        *)

\* the longest text of SmallTexts and of BalanceTexts
MaxLen == 3
\* the most root objects of a text of RootTexts
MaxRoots == 2
\* the most words of a text of ProseTexts
MaxWords == 4

\* every text over Sigma of at most n characters
RECURSIVE TextsUpTo(_, _)
TextsUpTo(Sigma, n) ==
    IF n = 0 THEN {<<>>}
    ELSE LET shorter == TextsUpTo(Sigma, n - 1)
         IN  shorter \cup {Append(t, c) : t \in shorter, c \in Sigma}

SmallSigma == {"{", "}", "[", "]", DQ, ":", ",", "1", "a", " "}
SmallTexts == TextsUpTo(SmallSigma, MaxLen)

\* valid JSON documents
ValidScalars ==
    { <<"1">>, Wnull, Wtrue, <<DQ, "a", DQ>>, <<DQ, DQ>>,
      <<DQ>> \o WNone \o <<DQ>>, <<DQ, "a", " ", "b", ":", DQ>>,
      <<DQ, "}", "}", DQ>>, <<DQ, ",", ",", DQ>>, <<DQ, "0", "x", "1", "A", DQ>>,
      <<DQ, "i", "t", "'", "s", DQ>>, <<DQ, BSL, "n", DQ>> }
ValidTexts ==
    ValidScalars
      \cup {<<"[">> \o x \o <<"]">> : x \in ValidScalars}
      \cup {<<"[">> \o x \o <<",">> \o y \o <<"]">> :
               x \in ValidScalars, y \in {<<"1">>, <<DQ, "a", DQ>>}}
      \cup {<<"{", DQ, "k", DQ, ":">> \o x \o <<"}">> : x \in ValidScalars}
      \cup {<<"{", DQ, "k", DQ, ":", "[">> \o x \o <<"]", "}">> : x \in ValidScalars}
      \cup {<<"{", DQ, "k", DQ, ":", "{", DQ, "j", DQ, ":">> \o x \o <<"}", "}">> :
               x \in {<<"1">>, Wnull}}
      \cup {<<" ", "[", "1", ",", " ", "2", "]", NL>>, <<"{", "}">>, <<"[", "]">>}

\* root objects, valid JSON up to unquoted keys, with the value each parses to
\* once its keys are quoted
Num(t) == <<"num", t>>
Obj(k, v) == <<"obj", {<<k, v>>}>>
RootObjects ==
    { [text |-> <<"{", "a", ":", "1", "}">>, value |-> Obj(<<"a">>, Num(<<"1">>))],
      [text |-> <<"{", DQ, "b", DQ, ":", "2", "}">>,
       value |-> Obj(<<"b">>, Num(<<"2">>))],
      [text |-> <<"{", "}">>, value |-> <<"obj", {}>>],
      [text |-> <<"{", "a", ":", "{", "b", ":", "1", "}", "}">>,
       value |-> Obj(<<"a">>, Obj(<<"b">>, Num(<<"1">>)))],
      [text |-> <<"{", "c", ":", "[", "1", "]", "}">>,
       value |-> Obj(<<"c">>, <<"arr", <<Num(<<"1">>)>>>>)] }
RootSeps == {<<>>, <<" ">>, <<NL>>}

\* the concatenations of n root objects, each after a separator but the first
RECURSIVE RootChains(_)
RootChains(n) ==
    IF n = 1 THEN {[text |-> o.text, values |-> <<o.value>>] : o \in RootObjects}
    ELSE {[text |-> c.text \o sep \o o.text, values |-> Append(c.values, o.value)] :
             c \in RootChains(n - 1), sep \in RootSeps, o \in RootObjects}

RootInputs == UNION {RootChains(n) : n \in 2..MaxRoots}
RootTexts == {c.text : c \in RootInputs}

\* prose: words separated by single spaces (an empty word doubles a space)
Vocabulary == {<<>>, <<"a">>, <<"i", "s">>, WNone, Wtrue}
RECURSIVE Phrases(_)
Phrases(n) ==
    IF n = 1 THEN Vocabulary
    ELSE {p \o <<" ">> \o w : p \in Phrases(n - 1), w \in Vocabulary}
ProseTexts == UNION {Phrases(n) : n \in 1..MaxWords}

\* documents cut short: every prefix of a document
Documents ==
    { <<"{", "a", ":", "{", "b", ":", "[", "1", ",", "2", ",", "3", ",", "{", "c",
        ":", "1", "}", "]", "}", "}">>,
      <<"[", "{", DQ, "a", DQ, ":", "1", "}", ",", "{", DQ, "b", DQ, ":", "2",
        "}", "]">>,
      <<"{", DQ, "a", DQ, ":", " ", DQ, "b", DQ, ",", " ", DQ, "c", DQ, ":", " ",
        "[", "1", ",", " ", "[", "2", "]", "]", "}">>,
      <<BOM, "{", "x", ":", "0", "x", "1", "A", ",", "y", ":", "'", "s", "'", ",",
        "}", " ", "/", "/", "c">>,
      <<DQ, BSL, "u", "0", "0", "4", "1", DQ>>,
      <<"{", "f", "o", "o", ":", "1", "}", ":", DQ>> }
TruncatedTexts == UNION {{SubSeq(d, 1, n) : n \in 1..Len(d)} : d \in Documents}

\* brackets, quotes and backslashes
BalanceSigma == {"{", "}", "[", "]", DQ, BSL}
BalanceTexts == TextsUpTo(BalanceSigma, MaxLen)

Inputs == SmallTexts \cup ValidTexts \cup RootTexts \cup ProseTexts
            \cup TruncatedTexts \cup BalanceTexts

-----------------------------------------------------------------------------
(* The state machine of a call of fix: one step per statement of lines      *)
(* 44-148, in the order of the source, and the caller's second call.        *)

\* no instance of JSONMan exists while a call of the static fix is followed
NoInstance ==
    /\ thisData = <<"lit", "null">>
    /\ thisErrors = <<>>
    /\ called = "none"
    /\ argument = <<>>
    /\ returned = <<>>

\* no debounced or throttled function exists
NoTimers ==
    /\ now = 0
    /\ timers = {}
    /\ nextId = 1
    /\ timeoutId = 0
    /\ lastExecTime = 0
    /\ events = <<>>

\* no compare is followed
NoCompare ==
    /\ operands = <<>>
    /\ comparison = <<>>

\* no loop of unescapeStringifiedJSON is followed
NoLoop ==
    /\ loopText = <<>>
    /\ iterationsLeft = 0
    /\ loopChanges = FALSE
    /\ sweeps = 0
    /\ loopPc = "none"

\* no single function is followed
NoCall ==
    /\ callee = "none"
    /\ given = <<>>
    /\ yielded = <<>>
    /\ round = 0

Init ==
    /\ input \in Inputs
    /\ fixed = input
    /\ fixes = <<>>
    /\ pc = "bom"
    /\ result = NoResult
    /\ run = 1
    /\ NoInstance
    /\ NoTimers
    /\ NoCompare
    /\ NoLoop
    /\ NoCall

\* the statement at label `at` replaces fixed and fixes by out and goes to `to`
Step(at, to, out) ==
    /\ pc = at
    /\ fixed' = out.text
    /\ fixes' = out.fixes
    /\ pc' = to
    /\ UNCHANGED <<input, result, run>>
    /\ UNCHANGED <<instanceVars, timerVars, compareVars, loopVars, callVars>>

StripBOM == Step("bom", "comments", stripBOM(fixed, fixes))
RemoveComments == Step("comments", "literals", removeComments(fixed, fixes))
ConvertLiterals == Step("literals", "hex", convertLiterals(fixed, fixes))
ConvertHexNumbers == Step("hex", "delimiters", convertHexNumbers(fixed, fixes))
FixDuplicateDelimiters ==
    Step("delimiters", "singleQuotes", fixDuplicateDelimiters(fixed, fixes))
FixSingleQuotes == Step("singleQuotes", "unescapedQuotes", fixSingleQuotes(fixed, fixes))
FixUnescapedQuotes == Step("unescapedQuotes", "escapes", fixUnescapedQuotes(fixed, fixes))
FixEscapeSequences == Step("escapes", "keys", fixEscapeSequences(fixed, fixes))
QuoteUnquotedKeys == Step("keys", "missingCommas", quoteUnquotedKeys(fixed, fixes))
FixMissingCommas == Step("missingCommas", "doubleCommas", fixMissingCommas(fixed, fixes))
FixDoubleCommas == Step("doubleCommas", "trailingCommas", fixDoubleCommas(fixed, fixes))
FixTrailingCommas == Step("trailingCommas", "balance", fixTrailingCommas(fixed, fixes))
BalanceBrackets == Step("balance", "roots", balanceBrackets(fixed, fixes))
HandleMultipleRoots == Step("roots", "dangling", handleMultipleRoots(fixed, fixes))
RemoveDanglingArtifacts ==
    Step("dangling", "stringified", removeDanglingArtifacts(fixed, fixes))
UnescapeStringifiedJSON ==
    Step("stringified", "finish", unescapeStringifiedJSON(fixed, fixes))

\* lines 105-148: the final trim, the parse, the final attempt and the return
Finish ==
    /\ pc = "finish"
    /\ result' = Outcome(fixed, fixes)
    /\ fixed' = Trim(fixed)
    /\ fixes' = result'.fixes
    /\ pc' = "done"
    /\ UNCHANGED <<input, run>>
    /\ UNCHANGED <<instanceVars, timerVars, compareVars, loopVars, callVars>>

\* the caller passes the data of a successful first call to fix again
Refix ==
    /\ pc = "done"
    /\ run = 1
    /\ result.success
    /\ input' = result.data
    /\ fixed' = result.data
    /\ fixes' = <<>>
    /\ pc' = "bom"
    /\ result' = NoResult
    /\ run' = 2
    /\ UNCHANGED <<instanceVars, timerVars, compareVars, loopVars, callVars>>

Next ==
    \/ StripBOM
    \/ RemoveComments
    \/ ConvertLiterals
    \/ ConvertHexNumbers
    \/ FixDuplicateDelimiters
    \/ FixSingleQuotes
    \/ FixUnescapedQuotes
    \/ FixEscapeSequences
    \/ QuoteUnquotedKeys
    \/ FixMissingCommas
    \/ FixDoubleCommas
    \/ FixTrailingCommas
    \/ BalanceBrackets
    \/ HandleMultipleRoots
    \/ RemoveDanglingArtifacts
    \/ UnescapeStringifiedJSON
    \/ Finish
    \/ Refix

Spec == Init /\ [][Next]_vars

-----------------------------------------------------------------------------
(* Properties of JSONMan.fix.                                               *)

\* C1: for every text that is already valid JSON, fix succeeds with an empty
\* fixes list and with data that strict-parses to the value of the text.
C1_ValidUnchanged ==
    (pc = "done" /\ parse(input).success)
        => /\ result.success
           /\ result.fixes = <<>>
           /\ parse(result.data) = parse(input)

\* C2: when fix returns success: true its data strict-parses, and when it
\* returns success: false it returns no data.
C2_DataParses ==
    pc = "done" =>
        /\ result.success => result.hasData /\ parse(result.data).success
        /\ ~result.success => ~result.hasData

\* a call that succeeds on a text that does not parse, after passes changed it
C2_Repaired ==
    /\ pc = "done"
    /\ result.success
    /\ ~parse(input).success
    /\ result.fixes # <<>>

\* C3: fix is total: a call is always at one of its statements, each of which
\* has a step, or has returned; it returns a result with a boolean success and
\* an array fixes and no Error leaves it; the Error thrown by the final
\* heuristic is returned as success: false with a JSONParseError.
C3_Total ==
    /\ pc \in {"bom", "comments", "literals", "hex", "delimiters", "singleQuotes",
               "unescapedQuotes", "escapes", "keys", "missingCommas", "doubleCommas",
               "trailingCommas", "balance", "roots", "dangling", "stringified",
               "finish", "done"}
    /\ pc = "done" =>
          /\ result.success \in BOOLEAN
          /\ DOMAIN result.fixes = 1..Len(result.fixes)
          /\ result.error.class \in {"none", "JSONParseError"}
          /\ (~parse(fixed).success /\ finalFixAttempt(fixed).threw)
                => ~result.success /\ result.error.class = "JSONParseError"

\* a call in which the final heuristic threw
C3_Thrown ==
    /\ pc = "done"
    /\ ~parse(fixed).success
    /\ finalFixAttempt(fixed).threw
    /\ result.error.message = "Failed to fix JSON"

\* a text of letters and spaces with at least two words
IsProse(t) ==
    /\ \A i \in 1..Len(t) : t[i] \in Lower \cup Upper \cup {" "}
    /\ Cardinality({i \in 1..Len(t) : t[i] # " " /\ (i = 1 \/ t[i - 1] = " ")}) >= 2

\* C4: for every input of letters and spaces with two or more words, fix
\* returns success: false with a JSONParseError and no data.
C4_ProseRejected ==
    (pc = "done" /\ IsProse(input))
        => /\ ~result.success
           /\ result.error.class = "JSONParseError"
           /\ ~result.hasData

\* prose that the final heuristic did not throw on and that a pass changed
C4_ProseUnfixable ==
    /\ pc = "done"
    /\ IsProse(input)
    /\ result.error.message = "Unable to fix JSON after all attempts"
    /\ result.fixes # <<>>

\* the string literals of a text, in order
Literals(s) ==
    LET lit[i \in 1..(Len(s) + 1)] ==
            IF i > Len(s) THEN <<>>
            ELSE LET j == MatchStringLiteral(s, i)
                 IN  IF j = 0 THEN lit[i + 1] ELSE <<SubSeq(s, i, j - 1)>> \o lit[j]
    IN  lit[1]

\* C5: no normalization pass changes the characters inside a properly
\* delimited string literal: when the text a pass receives is valid JSON, the
\* string literals of its output are those of its input.
C5_LiteralsKept ==
    [][(pc \in {"comments", "literals", "hex", "delimiters", "singleQuotes",
                "unescapedQuotes", "escapes", "keys", "missingCommas",
                "doubleCommas", "trailingCommas", "balance", "roots", "dangling"}
          /\ parse(fixed).success)
         => Literals(fixed') = Literals(fixed)]_vars

\* C6: the pipeline is idempotent on its own output: for data d of a successful
\* call, fix(d) succeeds, returns d and reports no fix.
C6_Idempotent ==
    (pc = "done" /\ run = 2)
        => /\ result.success
           /\ result.data = input
           /\ result.fixes = <<>>

\* C7: for the concatenation of two or more root objects, fix succeeds and its
\* data parses to the array of those objects in their order.
C7_RootsToArray ==
    \A c \in RootInputs :
        (pc = "done" /\ run = 1 /\ input = c.text)
            => /\ result.success
               /\ parse(result.data).data = <<"arr", c.values>>

\* the spec's truncated document {a:{b:[1,2,3,{c: and the value of its repair
TruncatedNested ==
    <<"{", "a", ":", "{", "b", ":", "[", "1", ",", "2", ",", "3", ",", "{", "c", ":">>
TruncatedNestedValue ==
    Obj(<<"a">>, Obj(<<"b">>, <<"arr", <<Num(<<"1">>), Num(<<"2">>), Num(<<"3">>),
                                         Obj(<<"c">>, <<"lit", "null">>)>>>>))

\* C8: when the text balanceBrackets receives ends with a colon, null follows
\* that colon in its output and only completion closers follow the null (the
\* text before it is kept, up to corrected closers); the truncated document of
\* the spec is repaired to the value with that key mapped to null.
C8_NullBeforeClosers ==
    [][/\ (pc = "balance" /\ EndsWith(fixed, <<":">>))
          => LET n == Len(fixed)
             IN  /\ Len(fixed') >= n + 4
                 /\ SubSeq(fixed', n + 1, n + 4) = Wnull
                 /\ \A k \in (n + 5)..Len(fixed') : fixed'[k] \in {"}", "]"}
                 /\ \A k \in 1..n : \/ fixed'[k] = fixed[k]
                                   \/ {fixed[k], fixed'[k]} \subseteq {"}", "]"}
       /\ (pc' = "done" /\ input = TruncatedNested)
          => result'.success /\ parse(result'.data).data = TruncatedNestedValue
      ]_vars

\* balanceBrackets has completed the truncated document of the spec
C8_NullThenClosers ==
    /\ pc = "roots"
    /\ fixes # <<>>
    /\ fixes[Len(fixes)].type = "bracket"
    /\ EndsWith(fixes[Len(fixes)].original, <<":">>)
    /\ EndsWith(fixed, Wnull \o <<"}", "]", "}", "}">>)

\* C9: for every text whose string literals are all terminated, the output of
\* balanceBrackets leaves the bracket stack of the scan of lines 644-679 empty.
C9_ClosersComplete ==
    [][(pc = "balance"
          /\ LET mode[i \in 0..Len(fixed)] ==
                     \* <<stringMode, escapeNext>> after i characters
                     IF i = 0 THEN <<FALSE, FALSE>>
                     ELSE IF mode[i - 1][2] THEN <<mode[i - 1][1], FALSE>>
                     ELSE IF fixed[i] = BSL THEN <<mode[i - 1][1], TRUE>>
                     ELSE IF fixed[i] = DQ THEN <<~mode[i - 1][1], FALSE>>
                     ELSE mode[i - 1]
             IN  ~mode[Len(fixed)][1])
         => OpenStack(fixed', 1, <<>>, FALSE, FALSE) = <<>>]_vars

\* C10: balanceBrackets replaces every structural closer that disagrees with
\* the closer its innermost open delimiter expects by the expected closer,
\* for an object closed by ] as for an array closed by }.
C10_MismatchCorrected ==
    [][pc = "balance"
         => \A c \in Corrections(fixed, 1, <<>>, FALSE, FALSE) :
                fixed'[c[1]] = c[2]]_vars

\* C11: fix first strict-parses the raw input and runs the passes only if that
\* parse fails: when the input parses, the first step of the call returns it
\* as the data, with no pass run and no fix reported.
C11_StrictParseFirst ==
    [][(pc = "bom" /\ parse(input).success)
         => /\ pc' = "done"
            /\ result'.success
            /\ result'.data = input
            /\ result'.fixes = <<>>]_vars

-----------------------------------------------------------------------------
(* The chainable instance of JSONMan (lines 14-20 and 1105-1209).            *)
(* A value held by an instance is a pair <<tag, payload>> as returned by     *)
(* parse, with two differences: the members of an object are a sequence of   *)
(* <<key, value>> pairs in the order of Object.entries, and <<"undefined">>  *)
(* is the value undefined.                                                   *)

Undefined == <<"undefined">>
Null == <<"lit", "null">>
Number1 == <<"num", <<"1">>>>
Number2 == <<"num", <<"2">>>>

\* typeof v === 'object' && v !== null
IsObject(v) == v[1] \in {"arr", "obj"}

\* typeof v === 'object' && v !== null && !Array.isArray(v)
IsPlainObject(v) == v[1] = "obj"

\* the index of the member of key k among the members ms, 0 when there is none
IndexOfKey(ms, k) ==
    IF \E i \in 1..Len(ms) : ms[i][1] = k
    THEN CHOOSE i \in 1..Len(ms) : ms[i][1] = k
    ELSE 0

\* JSON.parse builds an object member by member in the order of the text; parse
\* keeps the members of an object as a set, and the texts an instance parses
\* here (ParseTexts) have objects of at most one member, whose order is the
\* only one there is
RECURSIVE Ordered(_), Listed(_)
Ordered(v) ==
    IF v[1] = "arr" THEN <<"arr", [i \in 1..Len(v[2]) |-> Ordered(v[2][i])]>>
    ELSE IF v[1] = "obj" THEN <<"obj", Listed(v[2])>>
    ELSE v

Listed(S) ==
    IF S = {} THEN <<>>
    ELSE LET m == CHOOSE m \in S : TRUE
         IN  <<<<m[1], Ordered(m[2])>>>> \o Listed(S \ {m})

\* lines 915-935, JSONMan.validate: the array `errors` of its result; a value
\* of the model is always serializable, so the catch of line 925 is not taken
validate(v) == IF v = Undefined THEN <<"Data is undefined">> ELSE <<>>

\* the functions and the non-function passed to transform
Transformers == {"rules", "identity", "wrap", "undefined", "throws"}

\* what calling the function t does: return a value, or throw
Call(t, v) ==
    IF t = "identity" THEN [threw |-> FALSE, value |-> v]
    ELSE IF t = "wrap" THEN [threw |-> FALSE, value |-> <<"arr", <<v>>>>]
    ELSE IF t = "undefined" THEN [threw |-> FALSE, value |-> Undefined]
    ELSE [threw |-> TRUE, value |-> Undefined]

\* lines 1041-1047, JSONMan.transform
transform(v, transformer) ==
    IF transformer # "rules" THEN Call(transformer, v)
    ELSE [threw |-> FALSE, value |-> v]

\* lines 1052-1079, JSONMan.merge
RECURSIVE merge(_, _)
merge(obj1, obj2) ==
    IF ~IsObject(obj1) THEN (IF IsObject(obj2) THEN obj2 ELSE obj1)
    ELSE IF ~IsObject(obj2) THEN obj1
    ELSE IF obj1[1] = "arr" THEN obj1
    ELSE IF obj2[1] = "arr" THEN obj1
    ELSE LET Assign(ms, k, v) ==
                 IF IndexOfKey(ms, k) = 0 THEN Append(ms, <<k, v>>)
                 ELSE [ms EXCEPT ![IndexOfKey(ms, k)] = <<k, v>>]
             Merged(ms, k, v) ==
                 IF /\ IsPlainObject(v)
                    /\ IndexOfKey(ms, k) # 0
                    /\ IsPlainObject(ms[IndexOfKey(ms, k)][2])
                 THEN Assign(ms, k, merge(ms[IndexOfKey(ms, k)][2], v))
                 ELSE Assign(ms, k, v)
             F[i \in 0..Len(obj2[2])] ==
                 IF i = 0 THEN obj1[2]
                 ELSE Merged(F[i - 1], obj2[2][i][1], obj2[2][i][2])
         IN  <<"obj", F[Len(obj2[2])]>>

Kpath == <<"p", "a", "t", "h">>
Kkey == <<"k", "e", "y">>
Kvalue == <<"v", "a", "l", "u", "e">>
Kmatches == <<"m", "a", "t", "c", "h", "e", "s">>
KtotalFound == <<"t", "o", "t", "a", "l", "F", "o", "u", "n", "d">>
KsearchResults ==
    <<"s", "e", "a", "r", "c", "h", "R", "e", "s", "u", "l", "t", "s">>

\* lines 1018-1032: the results pushed by the inner function search on obj
RECURSIVE SearchIn(_, _, _)
SearchIn(obj, path, query) ==
    IF obj[1] = "arr"
    THEN LET F[i \in 0..Len(obj[2])] ==
                 IF i = 0 THEN <<>>
                 ELSE F[i - 1] \o SearchIn(obj[2][i],
                                           path \o <<"[">> \o DecStr(i - 1) \o <<"]">>,
                                           query)
         IN  F[Len(obj[2])]
    ELSE IF obj[1] = "obj"
    THEN LET Entry(key, value, newPath) ==
                 (IF \/ Includes(key, query)
                     \/ (value[1] = "str" /\ Includes(value[2], query))
                  THEN <<<<"obj", <<<<Kpath, <<"str", newPath>>>>,
                                    <<Kkey, <<"str", key>>>>,
                                    <<Kvalue, value>>>>>>>>
                  ELSE <<>>)
                 \o SearchIn(value, newPath, query)
             F[i \in 0..Len(obj[2])] ==
                 IF i = 0 THEN <<>>
                 ELSE F[i - 1] \o Entry(obj[2][i][1], obj[2][i][2],
                                        IF path # <<>>
                                        THEN path \o <<".">> \o obj[2][i][1]
                                        ELSE obj[2][i][1])
         IN  F[Len(obj[2])]
    ELSE <<>>

\* lines 1015-1036, JSONMan.search
search(v, query) ==
    LET Found(results) ==
            <<"obj", <<<<Kmatches, <<"arr", results>>>>,
                       <<KtotalFound, <<"num", DecStr(Len(results))>>>>>>>>
    IN  Found(SearchIn(v, <<>>, query))

\* the number of arrays and objects around the innermost value of v
RECURSIVE Depth(_)
Depth(v) ==
    IF ~IsObject(v) \/ v[2] = <<>> THEN (IF IsObject(v) THEN 1 ELSE 0)
    ELSE LET D[i \in 0..Len(v[2])] ==
                 IF i = 0 THEN 0
                 ELSE LET d == Depth(IF v[1] = "arr" THEN v[2][i] ELSE v[2][i][2])
                      IN  IF d > D[i - 1] THEN d ELSE D[i - 1]
         IN  1 + D[Len(v[2])]

MaxDepth == 2
MaxErrors == 2

ObjectA1 == <<"obj", <<<<<<"a">>, Number1>>>>>>
ObjectAB == <<"obj", <<<<<<"a">>, <<"obj", <<<<<<"b">>, Number1>>>>>>>>>>>>
ObjectAA == <<"obj", <<<<<<"a">>, <<"obj", <<<<<<"a">>, Number2>>>>>>>>>>>>

\* the values given to the constructor, to setData and to merge
InstanceValues ==
    {Undefined, Null, <<"str", <<"a">>>>, <<"arr", <<Number1>>>>,
     ObjectA1, ObjectAB, ObjectAA}

\* the strings given to the chained parse: three that parse, three that do not
ParseTexts ==
    {<<"{", DQ, "a", DQ, ":", "1", "}">>,
     <<"{", DQ, "b", DQ, ":", "{", DQ, "a", DQ, ":", "2", "}", "}">>,
     Wnull,
     <<"{", DQ, "a", DQ, ":", "x", "}">>,
     <<"[", "1", ",">>,
     <<>>}

\* the queries given to search
Queries == {<<"a">>, <<"z">>}

\* the JSONParseError of line 34; its message is the one of the SyntaxError
NativeParseError == ParseError("SyntaxError")

\* an Error with a message
Error(message) == [class |-> "Error", message |-> message]

\* no call of fix is followed while an instance is
NoFix ==
    /\ input = <<>>
    /\ fixed = <<>>
    /\ fixes = <<>>
    /\ pc = "none"
    /\ result = NoResult
    /\ run = 0

\* lines 14-20: the fields after new JSONMan() or new JSONMan(v)
InitInstance ==
    /\ NoFix
    /\ NoTimers
    /\ NoCompare
    /\ NoLoop
    /\ NoCall
    /\ thisData \in {Null} \cup InstanceValues
    /\ thisErrors = <<>>
    /\ called = "constructor"
    /\ argument = <<>>
    /\ returned = <<>>

\* a call of the method `name` with argument a that leaves the fields d and e
\* and returns r
Method(name, a, d, e, r) ==
    /\ called' = name
    /\ argument' = a
    /\ thisData' = d
    /\ thisErrors' = e
    /\ returned' = r
    /\ UNCHANGED <<fixVars, timerVars, compareVars, loopVars, callVars>>

This == <<"this">>

\* lines 1105-1108
SetData ==
    \E v \in InstanceValues : Method("setData", v, v, thisErrors, This)

\* lines 1113-1115
getData == thisData

\* lines 1199-1201
hasErrors == Len(thisErrors) > 0

\* get without the reset of this.errors of line 1123
GetKeepingErrors == Method("get", <<>>, Null, thisErrors, thisData)

\* lines 1120-1125
Get == Method("get", <<>>, Null, <<>>, thisData)

\* parse with the assignment of line 1133 made whatever the result
ParseAssigningAlways ==
    /\ Len(thisErrors) < MaxErrors
    /\ \E jsonString \in ParseTexts :
          LET Chained(r) ==
                  IF r.success
                  THEN Method("parse", jsonString, Ordered(r.data), thisErrors, This)
                  ELSE Method("parse", jsonString, Undefined,
                              Append(thisErrors, NativeParseError), This)
          IN  Chained(parse(jsonString))

\* lines 1130-1138
Parse ==
    /\ Len(thisErrors) < MaxErrors
    /\ \E jsonString \in ParseTexts :
          LET Chained(r) ==
                  IF r.success
                  THEN Method("parse", jsonString, Ordered(r.data), thisErrors, This)
                  ELSE Method("parse", jsonString, thisData,
                              Append(thisErrors, NativeParseError), This)
          IN  Chained(parse(jsonString))

\* lines 1143-1149
Validate ==
    /\ Len(thisErrors) < MaxErrors
    /\ Method("validate", <<>>, thisData,
              IF validate(thisData) # <<>>
              THEN Append(thisErrors, Error("Validation failed: Data is undefined"))
              ELSE thisErrors,
              This)

\* lines 1154-1161
Transform ==
    /\ Len(thisErrors) < MaxErrors
    /\ Depth(thisData) <= MaxDepth
    /\ \E transformer \in Transformers :
          LET Chained(r) ==
                  IF r.threw
                  THEN Method("transform", transformer, thisData,
                              Append(thisErrors, Error("thrown by the transformer")),
                              This)
                  ELSE Method("transform", transformer, r.value, thisErrors, This)
          IN  Chained(transform(thisData, transformer))

\* lines 1166-1173; merge does not throw on the values of the model
Merge ==
    \E otherData \in InstanceValues :
        Method("merge", otherData, merge(thisData, otherData), thisErrors, This)

\* lines 1178-1187
Search ==
    /\ Depth(thisData) <= MaxDepth
    /\ \E query \in Queries :
          LET Chained(results) ==
                  IF results[2][2][2][2] # <<"0">>
                  THEN Method("search", query,
                              <<"obj", <<<<KsearchResults, results>>>>>>,
                              thisErrors, This)
                  ELSE Method("search", query, thisData, thisErrors, This)
          IN  Chained(search(thisData, query))

\* lines 1206-1209
ClearErrors == Method("clearErrors", <<>>, thisData, <<>>, This)

NextInstance ==
    \/ SetData
    \/ Get
    \/ Parse
    \/ Validate
    \/ Transform
    \/ Merge
    \/ Search
    \/ ClearErrors

SpecInstance == InitInstance /\ [][NextInstance]_vars

-----------------------------------------------------------------------------
(* Properties of the chainable instance.                                    *)

\* C12: get returns the data the instance held when it was called and resets
\* the instance: right after it getData() is null and hasErrors() is false,
\* whatever calls came before.
C12_GetResets ==
    [][called' = "get" => /\ returned' = getData
                          /\ getData' = Null
                          /\ ~hasErrors']_vars

\* get has returned the data of an instance that held an object
C12_GotObject ==
    /\ called = "get"
    /\ returned[1] = "obj"
    /\ thisData = Null
    /\ thisErrors = <<>>

\* C13: a chained parse of a string that does not strict-parse leaves the data
\* as it was and appends exactly one error; one of a string that parses
\* replaces the data by the parsed value and leaves the errors as they were;
\* the calls of transform and merge that follow work on the data then held.
C13_ChainedParse ==
    [][/\ (called' = "parse" /\ ~parse(argument').success)
            => /\ thisData' = thisData
               /\ Len(thisErrors') = Len(thisErrors) + 1
               /\ SubSeq(thisErrors', 1, Len(thisErrors)) = thisErrors
       /\ (called' = "parse" /\ parse(argument').success)
            => /\ thisData' = Ordered(parse(argument').data)
               /\ thisErrors' = thisErrors
       /\ called' = "merge" => thisData' = merge(thisData, argument')
       /\ (called' = "transform" /\ ~transform(thisData, argument').threw)
            => thisData' = transform(thisData, argument').value]_vars

\* a parse has failed on an instance that holds an object and has an earlier
\* error
C13_FailedParseKeptData ==
    /\ called = "parse"
    /\ ~parse(argument).success
    /\ thisData[1] = "obj"
    /\ Len(thisErrors) = 2

-----------------------------------------------------------------------------
(* debounce and throttle (src/unnamed/part_001, lines 358-396).              *)
(* The host keeps the timeouts that were set; it runs the callback of a      *)
(* timeout no earlier than its delay after setTimeout, at a moment of its    *)
(* choice when no other code runs, so that a call of the function may come   *)
(* between the moment a timeout is due and the moment its callback runs.     *)
(* timeoutId is 0 for undefined and null; the ids of the host are positive.  *)
(* fn records its calls, as jest.fn() does: `events` lists the calls of the  *)
(* returned function and of fn with the clock and the arguments of each.     *)

Delay == 2
MaxCalls == 3
MaxTime == 5

\* Date.now() when the function is created: far more than the delay
Created == Delay + 1

\* the arguments of a call
Arguments == {"x", "y"}

Event(kind, args) == [kind |-> kind, time |-> now, args |-> args]

\* the calls of the returned function made so far
Calls == {k \in 1..Len(events) : events[k].kind = "call"}

\* setTimeout(callback, ms), where the callback holds args
setTimeout(ts, args, ms) ==
    ts \cup {[id |-> nextId, due |-> now + (IF ms > 0 THEN ms ELSE 0), args |-> args]}

\* clearTimeout(id)
clearTimeout(ts, id) == {t \in ts : t.id # id}

InitTimers ==
    /\ NoFix
    /\ NoInstance
    /\ NoCompare
    /\ NoLoop
    /\ NoCall
    /\ now = Created
    /\ timers = {}
    /\ nextId = 1
    /\ timeoutId = 0
    /\ lastExecTime = 0
    /\ events = <<>>

\* time passes
Tick ==
    /\ now < Created + MaxTime
    /\ now' = now + 1
    /\ UNCHANGED <<timers, nextId, timeoutId, lastExecTime, events>>
    /\ UNCHANGED <<fixVars, instanceVars, compareVars, loopVars, callVars>>

\* the function returned by debounce without the clearTimeout of line 366
DebouncedWithoutClear ==
    /\ Cardinality(Calls) < MaxCalls
    /\ \E args \in Arguments :
          /\ timers' = setTimeout(timers, args, Delay)
          /\ timeoutId' = nextId
          /\ nextId' = nextId + 1
          /\ events' = Append(events, Event("call", args))
    /\ UNCHANGED <<now, lastExecTime>>
    /\ UNCHANGED <<fixVars, instanceVars, compareVars, loopVars, callVars>>

\* lines 364-369: a call of the function returned by debounce
Debounced ==
    /\ Cardinality(Calls) < MaxCalls
    /\ \E args \in Arguments :
          /\ timers' = setTimeout(IF timeoutId # 0
                                  THEN clearTimeout(timers, timeoutId)
                                  ELSE timers,
                                  args, Delay)
          /\ timeoutId' = nextId
          /\ nextId' = nextId + 1
          /\ events' = Append(events, Event("call", args))
    /\ UNCHANGED <<now, lastExecTime>>
    /\ UNCHANGED <<fixVars, instanceVars, compareVars, loopVars, callVars>>

\* line 368: the host runs the callback () => fn(...args) of a timeout
DebounceTimeout ==
    /\ \E t \in timers :
          /\ t.due <= now
          /\ timers' = timers \ {t}
          /\ events' = Append(events, Event("fn", t.args))
    /\ UNCHANGED <<now, nextId, timeoutId, lastExecTime>>
    /\ UNCHANGED <<fixVars, instanceVars, compareVars, loopVars, callVars>>

NextDebounce ==
    \/ Tick
    \/ Debounced
    \/ DebounceTimeout

SpecDebounce == InitTimers /\ [][NextDebounce]_vars

\* lines 382-394: a call of the function returned by throttle
Throttled ==
    /\ Cardinality(Calls) < MaxCalls
    /\ \E args \in Arguments :
          IF now - lastExecTime > Delay
          THEN /\ events' = events \o <<Event("call", args), Event("fn", args)>>
               /\ lastExecTime' = now
               /\ UNCHANGED <<timers, nextId, timeoutId>>
          ELSE IF timeoutId = 0
          THEN /\ timers' = setTimeout(timers, args, Delay - (now - lastExecTime))
               /\ timeoutId' = nextId
               /\ nextId' = nextId + 1
               /\ events' = Append(events, Event("call", args))
               /\ UNCHANGED lastExecTime
          ELSE /\ events' = Append(events, Event("call", args))
               /\ UNCHANGED <<timers, nextId, timeoutId, lastExecTime>>
    /\ UNCHANGED now
    /\ UNCHANGED <<fixVars, instanceVars, compareVars, loopVars, callVars>>

\* lines 389-393: the host runs the callback of a timeout
ThrottleTimeout ==
    /\ \E t \in timers :
          /\ t.due <= now
          /\ timers' = timers \ {t}
          /\ events' = Append(events, Event("fn", t.args))
    /\ lastExecTime' = now
    /\ timeoutId' = 0
    /\ UNCHANGED <<now, nextId>>
    /\ UNCHANGED <<fixVars, instanceVars, compareVars, loopVars, callVars>>

NextThrottle ==
    \/ Tick
    \/ Throttled
    \/ ThrottleTimeout

SpecThrottle == InitTimers /\ [][NextThrottle]_vars

-----------------------------------------------------------------------------
(* Properties of debounce and throttle.                                     *)

\* every call of fn comes right after a call of the debounced function, with
\* the arguments of that call and no earlier than Delay after it
AfterLastCall ==
    \A k \in 1..Len(events) :
        events[k].kind = "fn"
            => /\ k > 1
               /\ events[k - 1].kind = "call"
               /\ events[k].args = events[k - 1].args
               /\ events[k].time >= events[k - 1].time + Delay

\* C14 as stated: in a burst of calls, each less than Delay after the one
\* before, fn is not called during the burst and is called exactly once, Delay
\* after the last call, with the arguments of the last call: fn is called only
\* after the last call of a burst, and a call that ends a burst (the next call
\* comes Delay or more after it) is followed by a call of fn.
C14_BurstInvokedOnce ==
    /\ AfterLastCall
    /\ \A k \in 1..(Len(events) - 1) :
          (events[k].kind = "call" /\ events[k + 1].kind = "call")
              => events[k + 1].time - events[k].time < Delay

\* C14 as it holds: fn is called only by the timeout of the most recent call,
\* with its arguments and no earlier than Delay after it, and at most once
\* between two calls, so never during a burst; the timeout of the most recent
\* call is the only one set, and it is set exactly as long as fn has not been
\* called since that call. A call made after the timeout is due and before the
\* host has run it clears it.
C14_InvokedAfterLastCall ==
    /\ AfterLastCall
    /\ Cardinality(timers) <= 1
    /\ \A t \in timers :
          /\ t.id = timeoutId
          /\ events # <<>>
          /\ events[Len(events)] = [kind |-> "call", time |-> t.due - Delay,
                                    args |-> t.args]
    /\ (events # <<>> /\ events[Len(events)].kind = "call") => timers # {}

\* fn has been called after a burst of two calls
C14_BurstThenInvoked ==
    /\ Len(events) >= 3
    /\ events[1].kind = "call"
    /\ events[2].kind = "call"
    /\ events[2].time > events[1].time
    /\ events[2].time - events[1].time < Delay
    /\ events[3].kind = "fn"

\* C15: the first call of the throttled function calls fn at once; whatever the
\* order of the calls and of the timeouts, two calls of fn are at least Delay
\* apart, and at most one timeout is set at any time.
C15_ThrottleSpacing ==
    /\ events # <<>>
          => /\ Len(events) >= 2
             /\ events[2] = [events[1] EXCEPT !.kind = "fn"]
    /\ \A i, j \in 1..Len(events) :
          (i < j /\ events[i].kind = "fn" /\ events[j].kind = "fn")
              => events[j].time - events[i].time >= Delay
    /\ Cardinality(timers) <= 1

-----------------------------------------------------------------------------
(* JSONMan.compare (lines 940-983), on the values of the chainable instance: *)
(* the members of an object are a sequence in the order of Object.keys.      *)

\* the code unit of a printable character
CodeOf(c) == 31 + (CHOOSE k \in 1..Len(Ascii) : Ascii[k] = c)

\* a < b for two strings: the order of Array.prototype.sort without comparator
RECURSIVE Before(_, _)
Before(a, b) ==
    IF a = <<>> THEN b # <<>>
    ELSE IF b = <<>> THEN FALSE
    ELSE IF a[1] = b[1] THEN Before(Tail(a), Tail(b))
    ELSE CodeOf(a[1]) < CodeOf(b[1])

\* Array.prototype.sort() of an array of strings
RECURSIVE Sort(_)
Sort(ks) ==
    IF ks = <<>> THEN <<>>
    ELSE LET i == CHOOSE i \in 1..Len(ks) :
                      \A j \in 1..Len(ks) : ~Before(ks[j], ks[i])
         IN  <<ks[i]>> \o Sort([j \in 1..(Len(ks) - 1) |->
                                    IF j < i THEN ks[j] ELSE ks[j + 1]])

\* Object.keys of an array or an object: the indices of an array are its keys
Keys(v) ==
    IF v[1] = "arr" THEN [i \in 1..Len(v[2]) |-> DecStr(i - 1)]
    ELSE [i \in 1..Len(v[2]) |-> v[2][i][1]]

\* obj[key], for a key of Keys(obj)
Property(v, key) ==
    IF v[1] = "arr"
    THEN v[2][CHOOSE i \in 1..Len(v[2]) : DecStr(i - 1) = key]
    ELSE v[2][IndexOfKey(v[2], key)][2]

\* lines 940-983. The === of line 942 is modelled on primitives; two operands
\* that are the same object come out equal by lines 952-975 as well.
RECURSIVE compare(_, _)
compare(obj1, obj2) ==
    IF ~IsObject(obj1) /\ obj1 = obj2 THEN [equal |-> TRUE]
    ELSE IF obj1 = Null \/ obj2 = Null \/ obj1 = Undefined \/ obj2 = Undefined
    THEN [equal |-> FALSE]
    ELSE IF obj1[1] = "arr" /\ obj2[1] = "arr"
    THEN IF Len(obj1[2]) # Len(obj2[2]) THEN [equal |-> FALSE]
         ELSE [equal |->
                 \A i \in 1..Len(obj1[2]) :
                     \/ obj1[2][i] = Undefined /\ obj2[2][i] = Undefined
                     \/ /\ obj1[2][i] # Undefined
                        /\ obj2[2][i] # Undefined
                        /\ compare(obj1[2][i], obj2[2][i]).equal]
    ELSE IF IsObject(obj1) /\ IsObject(obj2)
    THEN LET Keyed(keys1, keys2) ==
                 IF Len(keys1) # Len(keys2) THEN [equal |-> FALSE]
                 ELSE IF \E i \in 1..Len(keys1) : keys1[i] # keys2[i]
                 THEN [equal |-> FALSE]
                 ELSE [equal |->
                         \A i \in 1..Len(keys1) :
                             compare(Property(obj1, keys1[i]),
                                     Property(obj2, keys1[i])).equal]
         IN  Keyed(Sort(Keys(obj1)), Sort(Keys(obj2)))
    ELSE [equal |-> obj1 = obj2]

Member(k, v) == <<<<k>>, v>>
String(c) == <<"str", <<c>>>>

\* the values compared: scalars, arrays and objects, among them the same
\* members in two orders, the same elements in two orders, an array and an
\* object of the same keys
CompareValues ==
    {Undefined, Null, <<"lit", "true">>, Number1, Number2, String("1"), String("a"),
     <<"arr", <<>>>>,
     <<"arr", <<Number1>>>>,
     <<"arr", <<Number1, Number2>>>>,
     <<"arr", <<Number2, Number1>>>>,
     <<"arr", <<<<"arr", <<Number1>>>>>>>>,
     <<"arr", <<String("a")>>>>,
     <<"obj", <<>>>>,
     <<"obj", <<Member("a", Number1)>>>>,
     <<"obj", <<Member("0", Number1)>>>>,
     <<"obj", <<Member("a", Number1), Member("b", Number2)>>>>,
     <<"obj", <<Member("b", Number2), Member("a", Number1)>>>>,
     <<"obj", <<Member("a", Number2), Member("b", Number1)>>>>,
     <<"obj", <<Member("a", <<"arr", <<Number1>>>>)>>>>,
     <<"obj", <<Member("a", <<"obj", <<Member("0", Number1)>>>>)>>>>,
     <<"obj", <<Member("a", <<"obj", <<Member("a", Number1), Member("b", Number2)>>>>)>>>>,
     <<"obj", <<Member("a", <<"obj", <<Member("b", Number2), Member("a", Number1)>>>>)>>>>}

InitCompare ==
    /\ NoFix
    /\ NoInstance
    /\ NoTimers
    /\ NoLoop
    /\ NoCall
    /\ operands \in CompareValues \X CompareValues
    /\ comparison = <<>>

\* a call of JSONMan.compare on the two operands
Compare ==
    /\ comparison = <<>>
    /\ comparison' = compare(operands[1], operands[2])
    /\ UNCHANGED operands
    /\ UNCHANGED <<fixVars, instanceVars, timerVars, loopVars, callVars>>

\* the caller goes on to compare the same operands the other way round
CompareReversed ==
    /\ comparison # <<>>
    /\ operands[1] # operands[2]
    /\ operands' = <<operands[2], operands[1]>>
    /\ comparison' = compare(operands[2], operands[1])
    /\ UNCHANGED <<fixVars, instanceVars, timerVars, loopVars, callVars>>

NextCompare ==
    \/ Compare
    \/ CompareReversed

SpecCompare == InitCompare /\ [][NextCompare]_vars

\* a and b are the same JSON value: the same scalar, arrays of the same length
\* with the same elements in the same order, or objects of the same keys with
\* the same value at each key, whatever the order of the keys
RECURSIVE SameValue(_, _)
SameValue(a, b) ==
    IF a[1] # b[1] THEN FALSE
    ELSE IF a[1] = "arr"
    THEN /\ Len(a[2]) = Len(b[2])
         /\ \A i \in 1..Len(a[2]) : SameValue(a[2][i], b[2][i])
    ELSE IF a[1] = "obj"
    THEN /\ {a[2][i][1] : i \in 1..Len(a[2])} = {b[2][i][1] : i \in 1..Len(b[2])}
         /\ \A i \in 1..Len(a[2]) :
               SameValue(a[2][i][2], b[2][IndexOfKey(b[2], a[2][i][1])][2])
    ELSE a = b

\* C16: compare(a, b).equal is true exactly when a and b are the same JSON
\* value, the order of the keys of an object ignored and the order of the
\* elements of an array kept; an array is never equal to an object that is not
\* an array; compare(a, b) and compare(b, a) agree.
C16_CompareIsSameValue ==
    comparison # <<>>
        => /\ comparison.equal <=> SameValue(operands[1], operands[2])
           /\ ({operands[1][1], operands[2][1]} = {"arr", "obj"}) => ~comparison.equal
           /\ comparison = compare(operands[2], operands[1])

-----------------------------------------------------------------------------
(* Properties of the pipeline of JSONMan.fix: order and audit trail.         *)

\* the statements of fix in the order of lines 48-106
PassOrder ==
    <<"bom", "comments", "literals", "hex", "delimiters", "singleQuotes",
      "unescapedQuotes", "escapes", "keys", "missingCommas", "doubleCommas",
      "trailingCommas", "balance", "roots", "dangling", "stringified", "finish">>

\* C17: in one call of fix the sixteen passes run once each in the order BOM,
\* comments, literals, hex numbers, duplicate delimiters, single quotes,
\* unescaped quotes, escapes, keys, missing commas, double commas, trailing
\* commas, balance, roots, dangling artifacts, stringified JSON; each works on
\* the text the one before left and pushes at most one record after those
\* already pushed; the final heuristic is used only when the parse after the
\* passes failed.
C17_PassesInOrder ==
    [][/\ \A k \in 1..16 :
             pc = PassOrder[k]
                 => /\ pc' = PassOrder[k + 1]
                    /\ input' = input
                    /\ Len(fixes') <= Len(fixes) + 1
                    /\ SubSeq(fixes', 1, Len(fixes)) = fixes
                    /\ (fixed' # fixed /\ Len(fixes') > Len(fixes) /\ k > 1)
                          => fixes'[Len(fixes')].original = fixed
       /\ pc = "finish"
             => /\ pc' = "done"
                /\ parse(Trim(fixed)).success
                      => /\ result'.success
                         /\ result'.data = Trim(fixed)
                         /\ result'.fixes = fixes]_vars

\* a call has returned the records of three passes or more
C17_ThreePassesRecorded ==
    /\ pc = "done"
    /\ run = 1
    /\ Len(result.fixes) >= 3
    /\ result.success

\* C18: a pass pushes a record only when it changed the text: a step of a pass
\* that lengthens fixes changes fixed, and in every record of a result original
\* and fixed are different strings.
C18_RecordMeansChange ==
    [][/\ \A k \in 1..16 :
             (pc = PassOrder[k] /\ Len(fixes') > Len(fixes))
                 => /\ fixed' # fixed
                    /\ fixes'[Len(fixes')].original # fixes'[Len(fixes')].fixed
       /\ pc' = "done"
             => \A k \in 1..Len(result'.fixes) :
                    result'.fixes[k].original # result'.fixes[k].fixed]_vars

\* C19: the audit trail is complete: a pass whose output differs from the text
\* it received pushes a record, so that a successful result with no fixes has
\* the input text itself as data.
C19_AuditComplete ==
    [][/\ \A k \in 1..16 :
             (pc = PassOrder[k] /\ fixed' # fixed) => Len(fixes') > Len(fixes)
       /\ (pc' = "done" /\ result'.success /\ result'.fixes = <<>>)
             => result'.data = input]_vars

\* C20: the final heuristic is not audited: when the parse after the passes
\* fails and the output of the final heuristic parses, the fixes returned are
\* the records of the sixteen passes, with no record for the final heuristic.
C20_FinalHeuristicUnrecorded ==
    [][(/\ pc = "finish"
        /\ ~parse(Trim(fixed)).success
        /\ ~finalFixAttempt(Trim(fixed)).threw
        /\ parse(finalFixAttempt(Trim(fixed)).text).success)
           => /\ result'.success
              /\ result'.fixes = fixes]_vars

-----------------------------------------------------------------------------
(* Properties of the failure of fix and of single passes.                    *)

\* C21: when fix fails for good it returns success: false with the records the
\* passes pushed, and the error it returns is the error of the last strict
\* parse, the one of the output of the final heuristic.
C21_FailureCarriesParseError ==
    [][(pc = "finish" /\ ~result'.success)
          => /\ result'.fixes = fixes
             /\ result'.error = NativeParseError]_vars


-----------------------------------------------------------------------------
(* The loop of unescapeStringifiedJSON, one replace call at a time.          *)

\* JSON.stringify of a text whose only characters to escape are DQ and BSL
Stringify(t) ==
    <<DQ>> \o ReplaceAll(t, LAMBDA s, i : IF In(s, i, {DQ, BSL}) THEN i + 1 ELSE 0,
                         LAMBDA s, i, j : <<BSL, s[i]>>) \o <<DQ>>

\* [""] stringified n times
RECURSIVE Nested(_)
Nested(n) == IF n = 0 THEN <<"[", DQ, DQ, "]">> ELSE Stringify(Nested(n - 1))

\* the input of the case deepNestedJSONinString
DeepNestedJSONinString ==
    <<"{", DQ, "a", DQ, ":">>
        \o Stringify(<<"{", DQ, "b", DQ, ":">>
                         \o Stringify(<<"{", DQ, "c", DQ, ":", "1", "}">>)
                         \o <<"}">>)
        \o <<"}">>

\* a stringified array with a trailing comma: its unescaped form, ["",], does
\* not parse, and fix repairs it to [""]
StringifiedTrailingComma == Stringify(<<"[", DQ, DQ, ",", "]">>)

\* the levels of nesting of the texts that are held in full
MaxNested == 2

\* stands for every text too long to be held, such as Nested(11) with its 8192
\* characters: what a replace call makes of it is left open
LongText == <<"long text">>

LoopTexts ==
    Inputs \cup {Nested(n) : n \in 0..MaxNested}
           \cup {DeepNestedJSONinString, StringifiedTrailingComma, LongText}

InitLoop ==
    /\ NoFix
    /\ NoInstance
    /\ NoTimers
    /\ NoCompare
    /\ NoCall
    /\ loopText \in LoopTexts
    /\ iterationsLeft = MaxIterations
    /\ loopChanges = FALSE
    /\ sweeps = 0
    /\ loopPc = "loop"

\* result.replace(stringPattern, ...) of lines 411 to 448 on a text s: the new
\* text, and iterationChanges, set when the callback unescapes a literal
replaceStringPattern ==
    [s \in Seq(STRING) |->
        [text |-> ReplaceAll(s, MatchStringLiteral, RepStringified),
         iterationChanges |->
             \E i \in MatchStarts(s, MatchStringLiteral) :
                 IsStringified(s, i, MatchStringLiteral(s, i))]]

\* the values a replace call can leave in `result` and iterationChanges
Replaced(s) ==
    IF s = LongText
    THEN {[text |-> LongText, iterationChanges |-> b] : b \in BOOLEAN}
    ELSE {replaceStringPattern[s]}

\* an iteration of the loop that leaves maxIterations as it was
SweepWithoutCount ==
    /\ loopPc = "loop"
    /\ iterationsLeft > 0
    /\ sweeps <= MaxIterations
    /\ \E r \in Replaced(loopText) :
           /\ loopText' = r.text
           /\ loopChanges' = (loopChanges \/ r.iterationChanges)
           /\ loopPc' = IF r.iterationChanges THEN "loop" ELSE "returned"
    /\ sweeps' = sweeps + 1
    /\ UNCHANGED <<iterationsLeft, fixVars, instanceVars, timerVars, compareVars,
                   callVars>>

\* an iteration of the loop, lines 404 to 452: the break of line 450 leaves it
Sweep ==
    /\ loopPc = "loop"
    /\ iterationsLeft > 0
    /\ iterationsLeft' = iterationsLeft - 1
    /\ \E r \in Replaced(loopText) :
           /\ loopText' = r.text
           /\ loopChanges' = (loopChanges \/ r.iterationChanges)
           /\ loopPc' = IF r.iterationChanges THEN "loop" ELSE "returned"
    /\ sweeps' = sweeps + 1
    /\ UNCHANGED <<fixVars, instanceVars, timerVars, compareVars, callVars>>

\* the loop condition of line 404 fails
LoopEnd ==
    /\ loopPc = "loop"
    /\ iterationsLeft = 0
    /\ loopPc' = "returned"
    /\ UNCHANGED <<loopText, iterationsLeft, loopChanges, sweeps>>
    /\ UNCHANGED <<fixVars, instanceVars, timerVars, compareVars, callVars>>

NextUnescape == Sweep \/ LoopEnd

SpecUnescape == InitLoop /\ [][NextUnescape]_vars

\* a step of the loop: one more replace call, or the end of the loop. Sweep
\* and LoopEnd are such steps, and one of the two can be taken while the loop
\* runs with maxIterations at 0 or more
LoopStep ==
    /\ loopPc = "loop"
    /\ loopPc' \in {"loop", "returned"}
    /\ sweeps' \in {sweeps, sweeps + 1}

\* the pass is a single synchronous call: nothing suspends its loop
SpecUnescapeFair == SpecUnescape /\ WF_<<loopPc, sweeps>>(LoopStep)

\* C22: the loop of the pass makes at most 10 replace calls, each taking one of
\* the 10 iterations it starts with, also on a text that every call changes,
\* and then the pass returns.
C22_AtMostTenSweeps ==
    /\ [](loopPc # "none" => /\ sweeps <= MaxIterations
                             /\ sweeps + iterationsLeft = MaxIterations)
    /\ <>(loopPc = "returned")

\* ten calls have changed the text and the loop has ended for that reason only
C22_TenSweepsAllChanging ==
    /\ loopPc = "returned"
    /\ sweeps = MaxIterations
    /\ loopChanges
    /\ loopText = LongText

\* the three calls of the case deepNestedJSONinString
C22_DeepNestedUnescaped ==
    /\ loopPc = "returned"
    /\ sweeps = 3
    /\ loopText = <<"{", DQ, "a", DQ, ":", "{", DQ, "b", DQ, ":",
                    "{", DQ, "c", DQ, ":", "1", "}", "}", "}">>


\* fixed = this.P(fixed, fixes): the pass P on what the pass before left. The
\* condition has the text of the pass before computed before P is entered, as
\* a call has its arguments
Then(out, P(_, _)) == IF Len(out.text) >= 0 THEN P(out.text, out.fixes) ELSE out

\* JSONMan.fix as one function: the sixteen passes in the order of lines 48 to
\* 103 and the statements of lines 105 to 148
fix(text) ==
    LET Finished(out) == Outcome(out.text, out.fixes)
    IN  Finished(
          Then(Then(Then(Then(Then(Then(Then(Then(Then(Then(Then(Then(Then(Then(Then(
            stripBOM(text, <<>>),
            removeComments), convertLiterals), convertHexNumbers),
            fixDuplicateDelimiters), fixSingleQuotes), fixUnescapedQuotes),
            fixEscapeSequences), quoteUnquotedKeys), fixMissingCommas),
            fixDoubleCommas), fixTrailingCommas), balanceBrackets),
            handleMultipleRoots), removeDanglingArtifacts),
            unescapeStringifiedJSON))

\* the text is one string literal whose content has \" and { or [ and whose
\* unescaped form does not parse
UnparsedStringified(s) ==
    /\ s # LongText
    /\ MatchStringLiteral(s, 1) = Len(s) + 1
    /\ LET content == SubSeq(s, 2, Len(s) - 1)
       IN  /\ Includes(content, <<BSL, DQ>>)
           /\ Includes(content, <<"{">>) \/ Includes(content, <<"[">>)
           /\ ~parse(Unescape(content)).success

\* C23: when the unescaped content of such a literal does not parse, the pass
\* calls fix on it and, when that call succeeds, puts the repaired text in the
\* place of the literal.
C23_RecursiveRepair ==
    [][(loopPc = "loop" /\ UnparsedStringified(loopText))
          => LET Repaired(r) == r.success => loopText' = r.data
             IN  Repaired(fix(Unescape(SubSeq(loopText, 2, Len(loopText) - 1))))]_vars

-----------------------------------------------------------------------------
(* The passes one by one: a pass is called on a text and then on the text   *)
(* it returned.                                                             *)

\* the longest text over PassSigma
MaxPassLen == 3

PassSigma == {BSL, "/", "{", "}", "[", ",", DQ, "a"}

\* a string literal with a block comment, one with a line comment
LiteralBlockComment == <<DQ, "/", "*", "*", "/", DQ>>
LiteralLineComment == <<DQ, "/", "/", DQ>>

\* string literals with the escapes ", \u000a, A, \n and \x41
LiteralEscapes ==
    {<<DQ, BSL, "u", "0", "0", "2", "2", DQ>>,
     <<DQ, BSL, "u", "0", "0", "0", "a", DQ>>,
     <<DQ, BSL, "u", "0", "0", "4", "1", DQ>>,
     <<DQ, BSL, "n", DQ>>,
     <<DQ, "a", BSL, "x", "4", "1", DQ>>}

\* [1,{"a":1},{"b":2}]
ArrayOfThree ==
    <<"[", "1", ",", "{", DQ, "a", DQ, ":", "1", "}", ",",
      "{", DQ, "b", DQ, ":", "2", "}", "]">>

PassTexts ==
    TextsUpTo(PassSigma, MaxPassLen)
        \cup {LiteralBlockComment, LiteralLineComment, ArrayOfThree}
        \cup LiteralEscapes

InitPass ==
    /\ NoFix
    /\ NoInstance
    /\ NoTimers
    /\ NoCompare
    /\ NoLoop
    /\ callee = "none"
    /\ given \in PassTexts
    /\ yielded = <<>>
    /\ round = 0

\* result = this.name(text, []) and then result2 = this.name(result, [])
CallPass(name, P(_, _)) ==
    /\ \/ /\ round = 0
          /\ callee' = name
          /\ given' = given
          /\ yielded' = P(given, <<>>)
       \/ /\ round = 1
          /\ callee = name
          /\ callee' = name
          /\ given' = yielded.text
          /\ yielded' = P(yielded.text, <<>>)
    /\ round' = round + 1
    /\ UNCHANGED <<fixVars, instanceVars, timerVars, compareVars, loopVars>>

CallStripBOM == CallPass("stripBOM", stripBOM)
CallRemoveComments == CallPass("removeComments", removeComments)
CallConvertLiterals == CallPass("convertLiterals", convertLiterals)
CallConvertHexNumbers == CallPass("convertHexNumbers", convertHexNumbers)
CallFixDuplicateDelimiters == CallPass("fixDuplicateDelimiters", fixDuplicateDelimiters)
CallFixSingleQuotes == CallPass("fixSingleQuotes", fixSingleQuotes)
CallFixUnescapedQuotes == CallPass("fixUnescapedQuotes", fixUnescapedQuotes)
CallFixEscapeSequences == CallPass("fixEscapeSequences", fixEscapeSequences)
CallQuoteUnquotedKeys == CallPass("quoteUnquotedKeys", quoteUnquotedKeys)
CallFixMissingCommas == CallPass("fixMissingCommas", fixMissingCommas)
CallFixDoubleCommas == CallPass("fixDoubleCommas", fixDoubleCommas)
CallFixTrailingCommas == CallPass("fixTrailingCommas", fixTrailingCommas)
CallBalanceBrackets == CallPass("balanceBrackets", balanceBrackets)
CallHandleMultipleRoots == CallPass("handleMultipleRoots", handleMultipleRoots)
CallRemoveDanglingArtifacts ==
    CallPass("removeDanglingArtifacts", removeDanglingArtifacts)

NextPass ==
    \/ CallStripBOM
    \/ CallRemoveComments
    \/ CallConvertLiterals
    \/ CallConvertHexNumbers
    \/ CallFixDuplicateDelimiters
    \/ CallFixSingleQuotes
    \/ CallFixUnescapedQuotes
    \/ CallFixEscapeSequences
    \/ CallQuoteUnquotedKeys
    \/ CallFixMissingCommas
    \/ CallFixDoubleCommas
    \/ CallFixTrailingCommas
    \/ CallBalanceBrackets
    \/ CallHandleMultipleRoots
    \/ CallRemoveDanglingArtifacts

SpecPass == InitPass /\ [][NextPass]_vars

\* the call was the first call of the pass `name`, on a text of the caller
Called(name) == callee = name /\ round = 1

\* C24: a text that is one string literal and has // or /* */ inside leaves
\* removeComments as it came.
C24_LiteralKept ==
    (/\ Called("removeComments")
     /\ MatchStringLiteral(given, 1) = Len(given) + 1
     /\ Includes(given, <<"/", "/">>) \/ Matches(given, MatchBlockComment))
        => yielded.text = given

\* C25: the flag escaped of the scans of removeComments, balanceBrackets and
\* handleMultipleRoots is set by a backslash inside a string literal only: on
\* a text that begins with a backslash, which is outside every string, each
\* scan gives what it gives from the second character on with the flag unset.
C25_EscapeOnlyInString ==
    (round = 1 /\ given # <<>> /\ given[1] = BSL)
        => /\ (callee = "removeComments" /\ ~Matches(given, MatchBlockComment))
                => yielded.text = LineScan(given, 2, FALSE, FALSE)
           /\ callee = "balanceBrackets"
                => Corrections(AppendNull(given), 1, <<>>, FALSE, FALSE)
                       = Corrections(AppendNull(given), 2, <<>>, FALSE, FALSE)
           /\ callee = "handleMultipleRoots"
                => ObjectSections(Trim(given), 1, 0, 1, FALSE, FALSE)
                       = ObjectSections(Trim(given), 2, 0, 1, FALSE, FALSE)

\* each of the three scans alone
C25_CommentScan ==
    (Called("removeComments") /\ given # <<>> /\ given[1] = BSL
        /\ ~Matches(given, MatchBlockComment))
        => yielded.text = LineScan(given, 2, FALSE, FALSE)

C25_BalanceScan ==
    (Called("balanceBrackets") /\ given # <<>> /\ given[1] = BSL)
        => Corrections(AppendNull(given), 1, <<>>, FALSE, FALSE)
               = Corrections(AppendNull(given), 2, <<>>, FALSE, FALSE)

C25_RootsScan ==
    (Called("handleMultipleRoots") /\ given # <<>> /\ given[1] = BSL)
        => ObjectSections(Trim(given), 1, 0, 1, FALSE, FALSE)
               = ObjectSections(Trim(given), 2, 0, 1, FALSE, FALSE)

\* C26: each of the passes 1 to 15 called on its own output returns it as it
\* is.
C26_Idempotent == round = 2 => yielded.text = given

\* the two repairs the claim names, each alone
C26_DoubleCommasIdempotent ==
    (round = 2 /\ callee = "fixDoubleCommas") => yielded.text = given

C26_DuplicateDelimitersIdempotent ==
    (round = 2 /\ callee = "fixDuplicateDelimiters") => yielded.text = given

\* C27: a string literal that parses, that is, whose escapes are all valid,
\* parses to the same string after fixEscapeSequences.
C27_ValidEscapesKept ==
    (Called("fixEscapeSequences") /\ At(given, 1, DQ) /\ parse(given).success)
        => parse(yielded.text) = parse(given)

\* the same for the literals without a \u escape
C27_PlainEscapesKept ==
    (Called("fixEscapeSequences") /\ At(given, 1, DQ) /\ parse(given).success
        /\ ~Matches(given, MatchUnicodeEscape))
        => parse(yielded.text) = parse(given)

\* C28: handleMultipleRoots returns a text that is one array as it came and
\* pushes no record.
C28_RootArrayUnchanged ==
    (Called("handleMultipleRoots") /\ At(given, 1, "[") /\ parse(given).success)
        => /\ yielded.text = given
           /\ yielded.fixes = <<>>

-----------------------------------------------------------------------------
(* Properties of fix on the input of the case danglingColon.                 *)

\* {foo:1}:" and {foo:1}:
DanglingColonQuote == <<"{", "f", "o", "o", ":", "1", "}", ":", DQ>>
DanglingColon == <<"{", "f", "o", "o", ":", "1", "}", ":">>

\* {"foo":1}
FooObject == <<"{", DQ, "f", "o", "o", DQ, ":", "1", "}">>

\* C29: fix succeeds on {foo:1}:" and on {foo:1}: , and its data parses to
\* the object {foo: 1}.
C29_DanglingColonRepaired ==
    (pc = "done" /\ run = 1 /\ input \in {DanglingColonQuote, DanglingColon})
        => /\ result.success
           /\ parse(result.data) = parse(FooObject)

\* the same for the input of the test alone
C29_DanglingColonQuoteRepaired ==
    (pc = "done" /\ run = 1 /\ input = DanglingColonQuote)
        => /\ result.success
           /\ parse(result.data) = parse(FooObject)

-----------------------------------------------------------------------------
(* escapeString and unescapeString of the helpers.                           *)

\* str.replace(/c/g, w) for one character c
ReplaceChar(s, c, w) ==
    ReplaceAll(s, LAMBDA t, i : IF At(t, i, c) THEN i + 1 ELSE 0,
               LAMBDA t, i, j : w)

\* str.replace(/\\c/g, w) for a backslash and one character c
ReplaceEscape(s, c, w) ==
    ReplaceAll(s, LAMBDA t, i : MatchText(t, i, <<BSL, c>>), LAMBDA t, i, j : w)

\* str.replace(/\b/g, w): in a regular expression \b is the word boundary, an
\* empty match; w is put at every boundary of s
ReplaceWordBoundary(s, w) ==
    LET out[i \in 1..(Len(s) + 1)] ==
            (IF WordBoundary(s, i) THEN w ELSE <<>>)
                \o (IF i > Len(s) THEN <<>> ELSE <<s[i]>> \o out[i + 1])
    IN  out[1]

escapeString(str) ==
    ReplaceChar(ReplaceWordBoundary(ReplaceChar(ReplaceChar(ReplaceChar(
        ReplaceChar(ReplaceChar(str, BSL, <<BSL, BSL>>), DQ, <<BSL, DQ>>),
        NL, <<BSL, "n">>), CR, <<BSL, "r">>), TAB, <<BSL, "t">>),
        <<BSL, "b">>), FF, <<BSL, "f">>)

unescapeString(str) ==
    ReplaceEscape(ReplaceEscape(ReplaceEscape(ReplaceEscape(ReplaceEscape(
        ReplaceEscape(ReplaceEscape(str, DQ, <<DQ>>), BSL, <<BSL>>),
        "n", <<NL>>), "r", <<CR>>), "t", <<TAB>>), "b", <<BSP>>), "f", <<FF>>)

\* the longest string over EscapeSigma
MaxEscapeLen == 3

EscapeSigma == {BSL, DQ, NL, BSP, "n", "1", " "}
EscapeTexts == TextsUpTo(EscapeSigma, MaxEscapeLen)

InitEscape ==
    /\ NoFix
    /\ NoInstance
    /\ NoTimers
    /\ NoCompare
    /\ NoLoop
    /\ callee = "none"
    /\ given \in EscapeTexts
    /\ yielded = <<>>
    /\ round = 0

\* escaped = escapeString(s)
EscapeString ==
    /\ round = 0
    /\ callee' = "escapeString"
    /\ yielded' = escapeString(given)
    /\ round' = 1
    /\ UNCHANGED given
    /\ UNCHANGED <<fixVars, instanceVars, timerVars, compareVars, loopVars>>

\* unescapeString(escaped)
UnescapeString ==
    /\ round = 1
    /\ callee' = "unescapeString"
    /\ yielded' = unescapeString(yielded)
    /\ round' = 2
    /\ UNCHANGED given
    /\ UNCHANGED <<fixVars, instanceVars, timerVars, compareVars, loopVars>>

NextEscape == EscapeString \/ UnescapeString

SpecEscape == InitEscape /\ [][NextEscape]_vars

\* C30: unescapeString(escapeString(s)) = s for every string s.
C30_RoundTrip == round = 2 => yielded = given

\* the same for the strings that have no letter or digit, also after the
\* replaces of line feed, carriage return and tab
C30_RoundTripNoWord ==
    (round = 2 /\ \A k \in 1..Len(given) : given[k] \notin WordCh \cup {NL, CR, TAB})
        => yielded = given

=============================================================================
